---- MODULE Spec2Model ----
(***************************************************************************)
(* Model of the ReAct loop of agent/react_agent.py: the output parser      *)
(* (_parse_react_output), the action dispatcher (_execute_tool) and the    *)
(* generator run_streaming with its cancellation predicate and callback;   *)
(* of LeadResearchController.run (agent/controller.py), which consumes the *)
(* generator; and of the streaming and cancel requests of api/main.py.     *)
(*                                                                         *)
(* Spec runs one stand-alone generator, ParserSpec applies the parser to   *)
(* reply texts, CtlSpec runs the controller over the generator and ApiSpec *)
(* runs the requests that share the module-level cancellation flag.        *)
(*                                                                         *)
(* Text is modelled as a sequence of tokens (strings): a marker such as    *)
(* "Thought:", a newline "\n", or an opaque run of characters.  String     *)
(* concatenation is sequence concatenation, `x in text` is "x is an infix  *)
(* of the token sequence".  An Optional value is a set: None is {} and a   *)
(* present value x is {x}.  A JSON object is a sequence of <<key, value>>  *)
(* pairs, in the object's order.                                           *)
(***************************************************************************)
EXTENDS Integers, Sequences, FiniteSets, TLC

VARIABLES
    pc,                     \* position of the generator run_streaming
    iteration,              \* local `iteration`
    max_iterations,         \* argument max_iterations
    cancellation_callback,  \* TRUE iff the argument is not None
    callback,               \* TRUE iff the argument is not None
    cancelFlag,             \* what the cancellation predicate returns if called now
    agent_scratchpad,       \* local `agent_scratchpad` (the transcript)
    parsed,                 \* local `parsed` (result of _parse_react_output)
    observation,            \* local `observation`
    steps,                  \* the steps yielded to the consumer, in order
    cbSteps,                \* the steps handed to `callback`, in order
    llmLog,                 \* history: one entry per self.llm.invoke call
    toolLog,                \* history: one entry per _execute_tool call
    consultLog,             \* history: one entry per cancellation_callback() call
    tools,                  \* names of the tools the agent was constructed with
    reply,                  \* a reply text handed to _parse_react_output on its own
    result,                 \* what _parse_react_output returned for `reply`
    ctl,                    \* position of LeadResearchController.run ("off": no controller)
    ctl_max_iterations,     \* LeadResearchController.max_iterations
    target_count,           \* LeadResearchController.target_count
    step_callback,          \* TRUE iff LeadResearchController.step_callback is set
    saved_count,            \* local `saved_count` of LeadResearchController.run
    consumed,               \* yielded steps the controller loop has gone through
    forwarded,              \* the steps handed to step_callback, in order
    cancellation_flag,      \* api/main.py: cancellation_flag["cancelled"]
    active_generation_id,   \* api/main.py: active_generation_id (None as {})
    runs,                   \* api/main.py: state of each streaming run
    cancelRequests,         \* history: cancel requests that set the flag
    cancelledIds,           \* history: the generation_id those requests returned,
                            \* with the state of that run at the time
    data,                   \* a value handed to _clean_email_data on its own
    cleaned,                \* what _clean_email_data returned for `data` (None as {})
    answer,                 \* what ReActAgent.run returned (None as {})
    LEADS_FILE,             \* state.py: content of leads.json (None as {}: no file)
    addLog,                 \* history: one entry per add_lead call
    cancelMark,             \* history: the calls made so far when the predicate
                            \* last turned true (None as {}: it is false)
    message_queue,          \* api/main.py: the Queue between controller thread and stream
    thread,                 \* api/main.py: position of run_controller ("dead": not alive)
    stream,                 \* api/main.py: position of the polling loop of event_generator
    events,                 \* the events the polling loop has yielded, in order
    produced,               \* history: every message put on the queue, in order
    leads_collection,       \* database_tools.py: the documents of db.leads, in order
    saver,                  \* position and locals of each thread in save_lead_tool
    saveLog                 \* history: one entry per save_lead_tool call that returned

\* the variables of one run_streaming generator
runVars == <<pc, iteration, max_iterations, cancellation_callback, callback,
             cancelFlag, agent_scratchpad, parsed, observation, steps, cbSteps,
             llmLog, toolLog, consultLog>>

parserVars == <<reply, result>>

ctlVars == <<ctl, ctl_max_iterations, target_count, step_callback, saved_count,
             consumed, forwarded>>

apiVars == <<cancellation_flag, active_generation_id, runs, cancelRequests,
             cancelledIds>>

cleanVars == <<data, cleaned>>

\* the functions and modules that are exercised on their own
leadVars == <<LEADS_FILE, addLog>>

streamVars == <<message_queue, thread, stream, events, produced>>

saveVars == <<leads_collection, saver, saveLog>>

auxVars == <<cleanVars, answer, leadVars, cancelMark, streamVars, saveVars>>

\* everything outside the generator: untouched by its steps
outerVars == <<tools, parserVars, ctlVars, apiVars, auxVars>>

vars == <<runVars, outerVars>>

----------------------------------------------------------------------------
(* Bounds of the model *)

MaxCap == 3          \* largest max_iterations explored
MaxRuns == 3         \* streaming requests explored
MaxCancels == 2      \* cancel requests that find an active generation
MaxAdds == 3         \* add_lead calls explored
MaxDepth == 2        \* deepest nesting of a value handed to _clean_email_data alone
MaxMessages == 3     \* step and lead messages of one streaming response
MaxLines == 3        \* longest reply text, in lines, handed to the parser alone
MaxLeads == 2        \* largest target_count, and new leads the database takes in a run
MaxCtlIterations == 1   \* largest LeadResearchController.max_iterations explored

StepsPerIteration == 15  \* controller.py: max_steps = self.max_iterations * 15

Runs == 1..MaxRuns

----------------------------------------------------------------------------
(* Text helpers *)

NL == "\n"

None == {}
Some(x) == {x}

Last(s) == s[Len(s)]

\* `needle in text` for token sequences
Contains(text, needle) ==
    \E i \in 0..(Len(text) - Len(needle)) :
        \A j \in 1..Len(needle) : text[i + j] = needle[j]

IsPrefix(s, t) == Len(s) <= Len(t) /\ SubSeq(t, 1, Len(s)) = s

RECURSIVE LStrip(_)
LStrip(text) ==
    IF text # <<>> /\ Head(text) = NL THEN LStrip(Tail(text)) ELSE text

RECURSIVE RStrip(_)
RStrip(text) ==
    IF text # <<>> /\ Last(text) = NL
    THEN RStrip(SubSeq(text, 1, Len(text) - 1)) ELSE text

\* str.strip()
Strip(text) == RStrip(LStrip(text))

\* index of the first token of text that is in toks, 0 if none
FindFirst(text, toks) ==
    IF \E i \in 1..Len(text) : text[i] \in toks
    THEN CHOOSE i \in 1..Len(text) :
            text[i] \in toks /\ \A j \in 1..(i - 1) : text[j] \notin toks
    ELSE 0

----------------------------------------------------------------------------
(* _parse_react_output *)

FinalMarkers   == {"Final Answer:", "final answer:"}   \* re.IGNORECASE
ThoughtMarkers == {"Thought:", "thought:"}
ActionMarkers  == {"Action:", "action:"}
InputMarkers   == {"Action Input:", "action input:"}
QuoteTokens    == {"<backtick>", "'", "\""}          \* the characters of strip()

\* json.loads on the payloads the model replies use: Some(object) or None
JsonLoads(tok) ==
    CASE tok = "{}"              -> Some(<<>>)
      [] tok = "{\"q\": 1}"      -> Some(<< <<"q", "1">> >>)
      [] tok = "{\"ok\": true}"  -> Some(<< <<"ok", "true">> >>)
      [] tok = "{\"domain\": \"acme.io\"}" -> Some(<< <<"domain", "acme.io">> >>)
      [] tok = "{\"domain\": \"acme.io\", \"name\": \"Acme\", \"description\": \"CRM\", \"url\": \"https://acme.io\", \"emails\": []}" ->
             Some(<< <<"domain", "acme.io">>, <<"name", "Acme">>,
                     <<"description", "CRM">>, <<"url", "https://acme.io">>,
                     <<"emails", "[]">> >>)
      [] tok = "{\"total_leads_found\": 1, \"quality_leads_saved\": 1, \"summary_message\": \"done\"}" ->
             Some(<< <<"total_leads_found", "1">>, <<"quality_leads_saved", "1">>,
                     <<"summary_message", "done">> >>)
      [] OTHER                   -> None

\* the repair pass: True/False/None -> true/false/null, control characters -> ' '
CleanJson(tok) ==
    CASE tok = "{\"ok\": True}" -> "{\"ok\": true}"
      [] tok = "{'ok': True}"   -> "{'ok': true}"
      [] tok = "{'ok': True, 'v': None}" -> "{'ok': true, 'v': null}"
      [] OTHER                  -> tok

\* tokens matched by  \{.*?\}\s*$  or by  \{[^}]+\}
ObjectTokens ==
    {"{}", "{\"q\": 1}", "{\"ok\": true}", "{\"ok\": True}", "{'ok': True}",
     "{'ok': True, 'v': None}", "{\"domain\": \"acme.io\"}",
     "{\"domain\": \"acme.io\", \"name\": \"Acme\", \"description\": \"CRM\", \"url\": \"https://acme.io\", \"emails\": []}",
     "{\"total_leads_found\": 1, \"quality_leads_saved\": 1, \"summary_message\": \"done\"}"}

\* group(1) of  <marker>\s*([^\n]+) , searched from token i: <<>> if no match
\* a faulty line pattern: the text runs to the end of the reply
LineAfter_ToTheEnd(text, i) == SubSeq(text, i + 1, Len(text))

\* `\s*([^\n]+)` after the marker at position i: the rest of the first
\* line that is not blank
LineAfter(text, i) ==
    LET rest == LStrip(SubSeq(text, i + 1, Len(text)))
        k    == FindFirst(rest, {NL})
    IN  IF k = 0 THEN rest ELSE SubSeq(rest, 1, k - 1)

RECURSIVE StripQuotes(_)
StripQuotes(a) ==
    IF a # <<>> /\ Head(a) \in QuoteTokens THEN StripQuotes(Tail(a))
    ELSE IF a # <<>> /\ Last(a) \in QuoteTokens
         THEN StripQuotes(SubSeq(a, 1, Len(a) - 1))
         ELSE a

\* lines 120-128: strip decorative quotes, keep the text before the first '('
CleanAction(a) ==
    LET q == StripQuotes(a)
        k == FindFirst(q, {"("})
    IN  IF k = 0 THEN q ELSE Strip(SubSeq(q, 1, k - 1))

\* the least element of a non-empty set of numbers
Min(S) == CHOOSE x \in S : \A y \in S : x <= y

\* where  \s*  after token i ends on an object token: its index, 0 otherwise
ObjectAt(text, i) ==
    LET after == {k \in (i + 1)..Len(text) : text[k] # NL}
    IN  IF after # {} /\ text[Min(after)] \in ObjectTokens THEN Min(after) ELSE 0

\* object tokens from index o on whose closing brace ends a line ( \}\s*$ )
LineEndObjects(text, o) ==
    {j \in o..Len(text) :
        text[j] \in ObjectTokens /\ (j = Len(text) \/ text[j + 1] = NL)}

\* markers "Action Input:" that are followed by an opening brace
InputCandidates(text) ==
    {i \in 1..Len(text) : text[i] \in InputMarkers /\ ObjectAt(text, i) # 0}

\* lines 134-138: group(1) of the first pattern that matches, leftmost match
\* first;  Action Input:\s*(\{.*?\}\s*$)  may run over several tokens,
\* Action Input:\s*(\{[^}]+\})  needs a non-empty object.  <<>> if neither matches
ActionInputMatch(text) ==
    LET c1 == {i \in InputCandidates(text) :
                  LineEndObjects(text, ObjectAt(text, i)) # {}}
        c2 == {i \in InputCandidates(text) : text[ObjectAt(text, i)] # "{}"}
    IN  IF c1 # {}
        THEN LET o == ObjectAt(text, Min(c1))
             IN  SubSeq(text, o, Min(LineEndObjects(text, o)))
        ELSE IF c2 # {} THEN <<text[ObjectAt(text, Min(c2))]>>
        ELSE <<>>

\* a faulty fallback: an undecodable payload is passed on as raw text
ParseActionInput_KeepsRaw(text) ==
    LET m == ActionInputMatch(text)
    IN  IF m = <<>> THEN <<>>
        ELSE IF Len(m) = 1 /\ JsonLoads(Head(m)) # None
        THEN CHOOSE d \in JsonLoads(Head(m)) : TRUE
        ELSE << <<"raw", Head(m)>> >>

\* lines 130-163: the decoded Action Input, the empty object when missing or undecodable
ParseActionInput(text) ==
    LET m == ActionInputMatch(text)
    IN  IF Len(m) # 1 THEN <<>>
        ELSE LET json_str == Head(m)
             IN  IF JsonLoads(json_str) # None
                 THEN CHOOSE d \in JsonLoads(json_str) : TRUE
                 ELSE IF JsonLoads(CleanJson(json_str)) # None
                      THEN CHOOSE d \in JsonLoads(CleanJson(json_str)) : TRUE
                      ELSE <<>>

ParseResult(type, content, thought, action, action_input) ==
    [type |-> type, content |-> content, thought |-> thought,
     action |-> action, action_input |-> action_input]

NoParse == ParseResult("none", <<>>, <<>>, <<>>, None)

\* a faulty precedence: an action marker wins over the terminal marker
_parse_react_output_ActionFirst(text) ==
    LET f  == FindFirst(text, FinalMarkers)
        t  == FindFirst(text, ThoughtMarkers)
        a  == FindFirst(text, ActionMarkers)
        thought == IF t = 0 THEN <<>> ELSE LineAfter(text, t)
        action  == IF a = 0 THEN <<>> ELSE CleanAction(LineAfter(text, a))
    IN  IF action # <<>>
        THEN ParseResult("action", <<>>, thought, action,
                         Some(ParseActionInput(text)))
        ELSE IF f # 0 /\ f < Len(text)
        THEN ParseResult("final_answer",
                         Strip(SubSeq(text, f + 1, Len(text))), <<>>, <<>>, None)
        ELSE IF thought # <<>>
        THEN ParseResult("thought", <<>>, thought, <<>>, None)
        ELSE ParseResult("unknown", text, <<>>, <<>>, None)

\* lines 95-183
_parse_react_output(text) ==
    LET f  == FindFirst(text, FinalMarkers)
        t  == FindFirst(text, ThoughtMarkers)
        a  == FindFirst(text, ActionMarkers)
        thought == IF t = 0 THEN <<>> ELSE LineAfter(text, t)
        action  == IF a = 0 THEN <<>> ELSE CleanAction(LineAfter(text, a))
    IN  IF f # 0 /\ f < Len(text)
        THEN ParseResult("final_answer",
                         Strip(SubSeq(text, f + 1, Len(text))), <<>>, <<>>, None)
        ELSE IF action # <<>>
        THEN ParseResult("action", <<>>, thought, action,
                         Some(ParseActionInput(text)))
        ELSE IF thought # <<>>
        THEN ParseResult("thought", <<>>, thought, <<>>, None)
        ELSE ParseResult("unknown", text, <<>>, <<>>, None)


----------------------------------------------------------------------------
(* _execute_tool *)

\* self.tool_map: the names of the registered capabilities
tool_map == tools

\* the tools of a stand-alone agent
AgentTools == {<<"lookup">>, <<"fetch_email">>}

\* controller.py ALL_TOOLS
ALL_TOOLS == {<<"extract_icp">>, <<"generate_search_queries">>, <<"searxng_search">>,
              <<"normalize_candidates">>, <<"firecrawl_enrich">>, <<"score_company">>,
              <<"save_lead_tool">>, <<"complete_task">>}

\* ", ".join(self.tool_map.keys())[:200]
Available ==
    IF tools = ALL_TOOLS
    THEN <<"extract_icp, generate_search_queries, searxng_search, normalize_candidates, firecrawl_enrich, score_company, save_lead_tool, complete_task">>
    ELSE <<"lookup, fetch_email">>

email_tools == {<<"search_and_fetch_emails">>, <<"batch_fetch_emails">>,
                <<"fetch_email">>, <<"list_unread">>, <<"dynamic_mail_fetch_tool">>}

\* a nested value: a scalar, a list of values, or a dict, whose entries are
\* <<key, value>> pairs in insertion order
Scalar(x)  == [type |-> "scalar", value |-> x]
List(xs)   == [type |-> "list", value |-> xs]
Dict(es)   == [type |-> "dict", value |-> es]

IsNotBodyHtml(p) == p[1] # "body_html"

\* a faulty cleaner: lists are returned as they are
RECURSIVE _clean_email_data_SkipsLists(_)
_clean_email_data_SkipsLists(d) ==
    IF d.type # "dict" THEN d
    ELSE LET kept == SelectSeq(d.value, IsNotBodyHtml)
         IN  Dict([i \in 1..Len(kept) |->
                      <<kept[i][1], _clean_email_data_SkipsLists(kept[i][2])>>])

\* lines 185-216: drop the body_html entries of every dict, at every depth
RECURSIVE _clean_email_data(_)
_clean_email_data(d) ==
    IF d.type = "scalar" THEN d
    ELSE IF d.type = "list"
    THEN List([i \in 1..Len(d.value) |-> _clean_email_data(d.value[i])])
    ELSE LET kept == SelectSeq(d.value, IsNotBodyHtml)
         IN  Dict([i \in 1..Len(kept) |->
                      <<kept[i][1], _clean_email_data(kept[i][2])>>])

\* a flat object (string values) as a nested value, and back
FlatDict(pairs) == Dict([i \in 1..Len(pairs) |-> <<pairs[i][1], Scalar(pairs[i][2])>>])

FlatPairs(d) == [i \in 1..Len(d.value) |-> <<d.value[i][1], d.value[i][2].value>>]

\* the entries of json.dumps(obj), in the object's order; sep separates entries
RECURSIVE JsonEntries(_, _, _)
JsonEntries(d, lead, sep) ==
    IF d = <<>> THEN <<>>
    ELSE lead \o <<Head(d)[1], ": ", Head(d)[2]>> \o
         (IF Tail(d) = <<>> THEN <<>> ELSE sep) \o JsonEntries(Tail(d), lead, sep)

\* json.dumps(obj)
JsonDumps(d) == <<"{">> \o JsonEntries(d, <<>>, <<", ">>) \o <<"}">>

\* json.dumps(obj, default=str, indent=2)
JsonDumpsIndent(d) ==
    IF d = <<>> THEN <<"{}">>
    ELSE <<"{", NL>> \o JsonEntries(d, <<"  ">>, <<",", NL>>) \o <<NL, "}">>

\* what tool.invoke(tool_input) can do: return scalar text that is not JSON,
\* return an object (or text that decodes to one), or raise
ToolOutcome(kind, text, value) == [kind |-> kind, text |-> text, value |-> value]

AgentOutcomes ==
    { ToolOutcome("text", <<"3 results">>, <<>>),
      ToolOutcome("text", <<"all done ", "[END_TASK]">>, <<>>),
      ToolOutcome("object", <<>>, << <<"subject", "hi">>, <<"body_html", "<p>hi</p>">> >>),
      ToolOutcome("raises", <<"timeout">>, <<>>) }

\* database_tools.py lines 116-121: what save_lead_tool returns after insert_one
SaveSuccess ==
    ToolOutcome("object", <<>>,
                << <<"status", "success">>, <<"message", "Lead Acme saved successfully">>,
                   <<"lead_id", "65f0">>, <<"domain", "acme.io">> >>)

\* database_tools.py lines 72-79: the domain is already in the collection
SaveDuplicate ==
    ToolOutcome("object", <<>>,
                << <<"status", "duplicate">>,
                   <<"message", "Lead for domain acme.io already exists">>,
                   <<"lead_id", "65f0">> >>)

\* the observations of save_lead_tool that report an inserted lead
IsSuccessfulSave(step) ==
    /\ step.step_type = "observation"
    /\ step.tool_name = Some(<<"save_lead_tool">>)
    /\ Contains(step.content, <<"status", ": ", "success">>)

SuccessfulSaves(s) == Cardinality({i \in 1..Len(s) : IsSuccessfulSave(s[i])})

\* a save has been answered with `duplicate` in this run
DuplicateSeen ==
    \E i \in 1..Len(steps) :
        /\ steps[i].step_type = "observation"
        /\ Contains(steps[i].content, <<"status", ": ", "duplicate">>)

\* the database takes at most MaxLeads new leads in a run; once the model
\* proposes a known domain it finds no new one, and every later save is a duplicate
SaveLeadOutcomes ==
    {SaveDuplicate} \cup
    (IF SuccessfulSaves(steps) < MaxLeads /\ ~DuplicateSeen THEN {SaveSuccess} ELSE {})

\* complete_task_tool.py lines 31-37
CompleteTaskOutcomes ==
    { ToolOutcome("object", <<>>,
                  << <<"status", "complete">>, <<"total_found", "1">>,
                     <<"quality_saved", "1">>, <<"message", "done">>,
                     <<"task_completed", "true">> >>) }

\* firecrawl_tool.py lines 71-91: the description is text of the scraped page
EnrichOutcomes ==
    { ToolOutcome("object", <<>>,
                  << <<"domain", "acme.io">>, <<"company_name", "Acme">>,
                     <<"description", "CRM for dentists">> >>),
      ToolOutcome("object", <<>>,
                  << <<"domain", "acme.io">>, <<"company_name", "Acme">>,
                     <<"description", "Saved lead successfully">> >>) }

\* what the tool being dispatched can do
ToolOutcomes ==
    CASE parsed.action = <<"save_lead_tool">>   -> SaveLeadOutcomes
      [] parsed.action = <<"complete_task">>    -> CompleteTaskOutcomes
      [] parsed.action = <<"firecrawl_enrich">> -> EnrichOutcomes
      [] OTHER                                  -> AgentOutcomes

Sentinel == <<"[END_TASK]">>

\* a faulty dispatcher: the error strings do not name the action
_execute_tool_Unnamed(tool_name, tool_input, outcome) ==
    IF tool_name \notin tool_map
    THEN <<"Error: Tool not found. Available tools: ">> \o Available \o <<"...">>
    ELSE CASE outcome.kind = "raises" ->
                <<"Error executing tool: ">> \o outcome.text
           [] outcome.kind = "text" -> outcome.text
           [] OTHER ->
                JsonDumpsIndent(IF tool_name \in email_tools
                                THEN FlatPairs(_clean_email_data(FlatDict(outcome.value)))
                                ELSE outcome.value)

\* a faulty dispatcher: the capability is looked up without a membership test
InvokesCapability_Always(tool_name) == TRUE

\* lines 218-254: the observation returned for capability outcome `outcome`
_execute_tool(tool_name, tool_input, outcome) ==
    IF tool_name \notin tool_map
    THEN <<"Error: Tool '">> \o tool_name \o
         <<"' not found. Available tools: ">> \o Available \o <<"...">>
    ELSE CASE outcome.kind = "raises" ->
                <<"Error executing tool '">> \o tool_name \o <<"': ">> \o outcome.text
           [] outcome.kind = "text" -> outcome.text
           [] OTHER ->
                JsonDumpsIndent(IF tool_name \in email_tools
                                THEN FlatPairs(_clean_email_data(FlatDict(outcome.value)))
                                ELSE outcome.value)

\* lines 221-229: whether _execute_tool calls tool.invoke
InvokesCapability(tool_name) == tool_name \in tool_map

----------------------------------------------------------------------------
(* ReActStep and the messages of run_streaming *)

\* `iteration` stands for the timestamp: the iteration that emitted the step
ReActStep(step_type, content, tool_name, tool_input, tool_output, it) ==
    [step_type |-> step_type, content |-> content, tool_name |-> tool_name,
     tool_input |-> tool_input, tool_output |-> tool_output, iteration |-> it]

CancelMsg == <<"Task cancelled by user">>

CapMsg(n) == <<"I've reached the maximum number of reasoning steps (", ToString(n),
               "). Based on what I've accomplished, the task has been completed.">>

SystemNote == <<NL, "[SYSTEM]: Task marked as complete. Provide Final Answer now.", NL>>

\* the replies self.llm.invoke can return (response.content)
AgentReplies ==
    { <<"Final Answer:", "done">>,
      <<"Thought:", "t", NL, "Action:", "lookup", NL, "final answer:", "ok", NL>>,
      <<"Thought:", "check stock", NL, "Action:", "lookup", NL,
        "Action Input:", "{\"q\": 1}">>,
      <<"Action:", "fetch_email">>,
      <<"Thought:", "try", NL, "Action:", "bogus", "(", "x", ")", NL,
        "Action Input:", "{\"ok\": True}", NL>>,
      <<"Thought:", "hmm">>,
      <<"I will search now">>,
      <<NL>> }

\* replies of the model that drives the lead research: it enriches a company
\* first or not at all, saves leads, and ends with complete_task or an answer
LeadReplies ==
    { <<"Final Answer:", "done">>,
      <<"Thought:", "save it", NL, "Action:", "save_lead_tool", NL, "Action Input:",
        "{\"domain\": \"acme.io\", \"name\": \"Acme\", \"description\": \"CRM\", \"url\": \"https://acme.io\", \"emails\": []}">>,
      <<"Action:", "complete_task", NL, "Action Input:",
        "{\"total_leads_found\": 1, \"quality_leads_saved\": 1, \"summary_message\": \"done\"}">> }
    \cup (IF llmLog = <<>>
          THEN { <<"Action:", "firecrawl_enrich", NL, "Action Input:",
                   "{\"domain\": \"acme.io\"}">>,
                 <<"Thought:", "extract the ICP first">> }
          ELSE {})

\* what self.llm.invoke can return to this agent
Replies == IF tools = ALL_TOOLS THEN LeadReplies ELSE AgentReplies

\* the prompt does not fit the model's context window
ContextFailure == <<"maximum context length", " is 8192 ", "tokens">>

\* the endpoint cannot be reached
TransportFailure == <<"connection refused">>

\* the account's rate limit is used up
QuotaFailure == <<"rate limit reached: 10000 ", "tokens", " per min">>

\* the texts str(e) of the exceptions self.llm.invoke can raise
LLMErrors == {TransportFailure, ContextFailure, QuotaFailure}

\* lines 354-368
is_context_error(e) ==
    \E i \in 1..Len(e) : e[i] \in {"maximum context length", "tokens", "context"}

error_content(e) ==
    IF is_context_error(e)
    THEN <<"Context Length Exceeded!", "**Error:** ">> \o e \o
         <<"**Solution:** Please clear the chat history">>
    ELSE <<"LLM error: ">> \o e


----------------------------------------------------------------------------
(* run_streaming *)

\* the model and action calls completed so far, noted when the predicate turns true
Mark(models, actions) == Some([models |-> models, actions |-> actions])

\* no reply is being parsed on its own
ParserIdle == reply = <<>> /\ result = NoParse

\* the generator is consumed directly, without a controller
CtlOff ==
    /\ ctl = "off"
    /\ ctl_max_iterations = 0
    /\ target_count = 0
    /\ step_callback = FALSE
    /\ saved_count = 0
    /\ consumed = 0
    /\ forwarded = <<>>

\* api/main.py lines 35-37: no streaming request yet
ApiIdle ==
    /\ cancellation_flag = FALSE
    /\ active_generation_id = None
    /\ runs = [r \in Runs |-> "idle"]
    /\ cancelRequests = 0
    /\ cancelledIds = {}

\* threads that may be inside save_lead_tool at the same time
MaxSavers == 2

\* calls of save_lead_tool in one behaviour
MaxSaves == 3

Savers == 1..MaxSavers

IdleSaver == [pc |-> "idle", domain |-> "", stored_at_call |-> FALSE]

\* no call of save_lead_tool is in progress, the collection is empty
SaveIdle ==
    /\ leads_collection = <<>>
    /\ saver = [t \in Savers |-> IdleSaver]
    /\ saveLog = <<>>

\* no streaming response is being produced
StreamIdle ==
    /\ message_queue = <<>>
    /\ thread = "dead"
    /\ stream = "done"
    /\ events = <<>>
    /\ produced = <<>>

\* nothing is exercised on its own
AuxIdle ==
    /\ data = Scalar("x")
    /\ cleaned = None
    /\ answer = None
    /\ LEADS_FILE = None
    /\ addLog = <<>>
    /\ StreamIdle
    /\ SaveIdle

Init ==
    /\ tools = AgentTools
    /\ ParserIdle /\ CtlOff /\ ApiIdle /\ AuxIdle
    /\ pc = "while"
    /\ iteration = 0
    /\ max_iterations \in 0..MaxCap
    /\ cancellation_callback \in BOOLEAN
    /\ callback \in BOOLEAN
    /\ cancelFlag \in (IF cancellation_callback THEN BOOLEAN ELSE {FALSE})
    /\ cancelMark = IF cancelFlag THEN Mark(0, 0) ELSE None
    /\ agent_scratchpad = <<>>
    /\ parsed = NoParse
    /\ observation = <<>>
    /\ steps = <<>>
    /\ cbSteps = <<>>
    /\ llmLog = <<>>
    /\ toolLog = <<>>
    /\ consultLog = <<>>

\* lines 323-337: the prompt of an iteration; the scratchpad is its only varying part
BuildPrompt(scratchpad) ==
    <<"**Previous actions (DO NOT REPEAT):**", NL>> \o scratchpad \o
    <<NL, "Continue (or Final Answer if done):">>

\* history entry of one self.llm.invoke call: the prompt sent and what came back
LLMEntry(it, type, output) ==
    [iteration |-> it, type |-> type, output |-> output,
     prompt |-> BuildPrompt(agent_scratchpad)]

\* a faulty emission: thought steps are yielded without the callback call
Emit_SilentThought(step) ==
    /\ cbSteps' = IF callback /\ step.step_type # "thought"
                  THEN Append(cbSteps, step) ELSE cbSteps
    /\ steps' = Append(steps, step)

\* `if callback: callback(step)` then `yield step`
Emit(step) ==
    /\ cbSteps' = IF callback THEN Append(cbSteps, step) ELSE cbSteps
    /\ steps' = Append(steps, step)

NoEmit == UNCHANGED <<steps, cbSteps>>

\* the predicate is consulted only when one was given (line 309 short-circuits)
Consult(it) ==
    consultLog' = IF cancellation_callback
                  THEN Append(consultLog, [iteration |-> it, value |-> cancelFlag])
                  ELSE consultLog

\* a faulty loop test: one iteration too many
LoopTest_OffByOne == iteration <= max_iterations

\* line 305: while iteration < max_iterations
LoopTest == iteration < max_iterations

\* lines 305-309: the loop test holds and the iteration is not cancelled
BeginIteration ==
    /\ pc = "while"
    /\ LoopTest
    /\ ~(cancellation_callback /\ cancelFlag)
    /\ iteration' = iteration + 1
    /\ Consult(iteration + 1)
    /\ pc' = "invoke_llm"
    /\ NoEmit
    /\ UNCHANGED outerVars
    /\ UNCHANGED <<max_iterations, cancellation_callback, callback, cancelFlag,
                   agent_scratchpad, parsed, observation, llmLog, toolLog>>

\* a faulty cancellation branch: the notice is emitted but the loop goes on
Cancelled_NoReturn ==
    /\ pc = "while"
    /\ LoopTest
    /\ cancellation_callback /\ cancelFlag
    /\ iteration' = iteration + 1
    /\ Consult(iteration + 1)
    /\ Emit(ReActStep("final_answer", CancelMsg, None, None, None, iteration + 1))
    /\ pc' = "invoke_llm"
    /\ UNCHANGED outerVars
    /\ UNCHANGED <<max_iterations, cancellation_callback, callback, cancelFlag,
                   agent_scratchpad, parsed, observation, llmLog, toolLog>>

\* a faulty cancellation branch: the predicate is honoured after the model call
Cancelled_AfterModel ==
    /\ pc = "while"
    /\ LoopTest
    /\ cancellation_callback /\ cancelFlag
    /\ iteration' = iteration + 1
    /\ Consult(iteration + 1)
    /\ llmLog' = Append(llmLog, LLMEntry(iteration + 1, "unknown",
                                         <<"I will search now">>))
    /\ Emit(ReActStep("final_answer", CancelMsg, None, None, None, iteration + 1))
    /\ pc' = "done"
    /\ UNCHANGED outerVars
    /\ UNCHANGED <<max_iterations, cancellation_callback, callback, cancelFlag,
                   agent_scratchpad, parsed, observation, toolLog>>

\* lines 305-319: the loop test holds and the predicate returns true
Cancelled ==
    /\ pc = "while"
    /\ LoopTest
    /\ cancellation_callback /\ cancelFlag
    /\ iteration' = iteration + 1
    /\ Consult(iteration + 1)
    /\ Emit(ReActStep("final_answer", CancelMsg, None, None, None, iteration + 1))
    /\ pc' = "done"
    /\ UNCHANGED outerVars
    /\ UNCHANGED <<max_iterations, cancellation_callback, callback, cancelFlag,
                   agent_scratchpad, parsed, observation, llmLog, toolLog>>

\* a faulty cap branch: the predicate is consulted once more and honoured
MaxIterationsReached_ChecksCancel ==
    /\ pc = "while"
    /\ ~LoopTest
    /\ Consult(iteration)
    /\ Emit(ReActStep("final_answer",
                      IF cancellation_callback /\ cancelFlag
                      THEN CancelMsg ELSE CapMsg(max_iterations),
                      None, None, None, iteration))
    /\ pc' = "done"
    /\ UNCHANGED outerVars
    /\ UNCHANGED <<iteration, max_iterations, cancellation_callback, callback,
                   cancelFlag, agent_scratchpad, parsed, observation, llmLog,
                   toolLog>>

\* lines 305, 466-476: the loop test fails
MaxIterationsReached ==
    /\ pc = "while"
    /\ ~LoopTest
    /\ Emit(ReActStep("final_answer", CapMsg(max_iterations), None, None, None,
                      iteration))
    /\ pc' = "done"
    /\ UNCHANGED outerVars
    /\ UNCHANGED <<iteration, max_iterations, cancellation_callback, callback,
                   cancelFlag, agent_scratchpad, parsed, observation, llmLog,
                   toolLog, consultLog>>

\* lines 339-349, 380-393, 395-405, 448-457, 461-464: the model replies
\* a faulty unknown branch: the reply is discarded
UnknownBlock_Dropped(llm_output) == <<NL, NL>>

\* line 464: f"\n{llm_output}\n"
UnknownBlock(llm_output) == <<NL>> \o llm_output \o <<NL>>

\* a faulty test: a thought step is emitted for every action
HasThought_Always(p) == TRUE

\* line 397: `if parsed['thought']:`
HasThought(p) == p.thought # <<>>

InvokeLLM ==
    /\ pc = "invoke_llm"
    /\ \E content \in Replies :
         LET llm_output == Strip(content)
             p == _parse_react_output(llm_output)
         IN  /\ parsed' = p
             /\ llmLog' = Append(llmLog, LLMEntry(iteration, p.type, llm_output))
             /\ CASE p.type = "final_answer" ->
                       /\ Emit(ReActStep("final_answer", p.content, None, None, None,
                                         iteration))
                       /\ pc' = "done"
                       /\ UNCHANGED agent_scratchpad
                  [] p.type = "action" ->
                       /\ IF HasThought(p)
                          THEN Emit(ReActStep("thought", p.thought, None, None, None,
                                              iteration))
                          ELSE NoEmit
                       /\ pc' = "yield_action"
                       /\ UNCHANGED agent_scratchpad
                  [] p.type = "thought" ->
                       /\ Emit(ReActStep("thought", p.thought, None, None, None,
                                         iteration))
                       /\ pc' = "after_thought"
                       /\ UNCHANGED agent_scratchpad
                  [] OTHER ->
                       /\ NoEmit
                       /\ agent_scratchpad' =
                              agent_scratchpad \o UnknownBlock(llm_output)
                       /\ pc' = "while"
    /\ UNCHANGED outerVars
    /\ UNCHANGED <<iteration, max_iterations, cancellation_callback, callback,
                   cancelFlag, observation, toolLog, consultLog>>

\* a faulty failure branch: the error step is emitted but the loop goes on
InvokeLLMFails_Continue ==
    /\ pc = "invoke_llm"
    /\ \E e \in LLMErrors :
         /\ Emit(ReActStep("error", error_content(e), None, None, None, iteration))
         /\ llmLog' = Append(llmLog, LLMEntry(iteration, "error", e))
    /\ pc' = "while"
    /\ UNCHANGED outerVars
    /\ UNCHANGED <<iteration, max_iterations, cancellation_callback, callback,
                   cancelFlag, agent_scratchpad, parsed, observation, toolLog,
                   consultLog>>

\* lines 350-378: the model invocation raises
InvokeLLMFails ==
    /\ pc = "invoke_llm"
    /\ \E e \in LLMErrors :
         /\ Emit(ReActStep("error", error_content(e), None, None, None, iteration))
         /\ llmLog' = Append(llmLog, LLMEntry(iteration, "error", e))
    /\ pc' = "done"
    /\ UNCHANGED outerVars
    /\ UNCHANGED <<iteration, max_iterations, cancellation_callback, callback,
                   cancelFlag, agent_scratchpad, parsed, observation, toolLog,
                   consultLog>>

\* a faulty action branch: the action step is not delivered before the dispatch
YieldAction_Skipped ==
    /\ pc = "yield_action"
    /\ NoEmit
    /\ pc' = "execute_tool"
    /\ UNCHANGED outerVars
    /\ UNCHANGED <<iteration, max_iterations, cancellation_callback, callback,
                   cancelFlag, agent_scratchpad, parsed, observation, llmLog,
                   toolLog, consultLog>>

\* lines 407-417
YieldAction ==
    /\ pc = "yield_action"
    /\ Emit(ReActStep("action", parsed.action, Some(parsed.action),
                      parsed.action_input, None, iteration))
    /\ pc' = "execute_tool"
    /\ UNCHANGED outerVars
    /\ UNCHANGED <<iteration, max_iterations, cancellation_callback, callback,
                   cancelFlag, agent_scratchpad, parsed, observation, llmLog,
                   toolLog, consultLog>>

ActionInput == CHOOSE d \in parsed.action_input : TRUE

\* a faulty dispatch: no observation step for an unregistered action
ExecuteTool_NoObservationForUnknown ==
    /\ pc = "execute_tool"
    /\ \E outcome \in (IF InvokesCapability(parsed.action)
                       THEN ToolOutcomes
                       ELSE {ToolOutcome("none", <<>>, <<>>)}) :
         LET obs == _execute_tool(parsed.action, ActionInput, outcome)
         IN  /\ observation' = obs
             /\ toolLog' = Append(toolLog,
                              [iteration |-> iteration, tool_name |-> parsed.action,
                               outcome |-> outcome.kind])
             /\ IF InvokesCapability(parsed.action)
                THEN Emit(ReActStep("observation", obs, Some(parsed.action), None,
                                    Some(obs), iteration))
                ELSE NoEmit
    /\ pc' = "update_scratchpad"
    /\ UNCHANGED outerVars
    /\ UNCHANGED <<iteration, max_iterations, cancellation_callback, callback,
                   cancelFlag, agent_scratchpad, parsed, llmLog, consultLog>>

\* a faulty dispatch: an exception of the capability escapes the generator
ExecuteTool_Propagates ==
    /\ pc = "execute_tool"
    /\ \E outcome \in (IF InvokesCapability(parsed.action)
                       THEN ToolOutcomes
                       ELSE {ToolOutcome("none", <<>>, <<>>)}) :
         LET obs == _execute_tool(parsed.action, ActionInput, outcome)
         IN  /\ observation' = obs
             /\ toolLog' = Append(toolLog,
                              [iteration |-> iteration, tool_name |-> parsed.action,
                               outcome |-> outcome.kind])
             /\ IF outcome.kind = "raises"
                THEN NoEmit /\ pc' = "raised"
                ELSE /\ Emit(ReActStep("observation", obs, Some(parsed.action), None,
                                       Some(obs), iteration))
                     /\ pc' = "update_scratchpad"
    /\ UNCHANGED outerVars
    /\ UNCHANGED <<iteration, max_iterations, cancellation_callback, callback,
                   cancelFlag, agent_scratchpad, parsed, llmLog, consultLog>>

\* lines 419-432
ExecuteTool ==
    /\ pc = "execute_tool"
    /\ \E outcome \in (IF InvokesCapability(parsed.action)
                       THEN ToolOutcomes
                       ELSE {ToolOutcome("none", <<>>, <<>>)}) :
         LET obs == _execute_tool(parsed.action, ActionInput, outcome)
         IN  /\ observation' = obs
             /\ toolLog' = Append(toolLog,
                              [iteration |-> iteration, tool_name |-> parsed.action,
                               outcome |-> outcome.kind])
             /\ Emit(ReActStep("observation", obs, Some(parsed.action), None,
                               Some(obs), iteration))
    /\ pc' = "update_scratchpad"
    /\ UNCHANGED outerVars
    /\ UNCHANGED <<iteration, max_iterations, cancellation_callback, callback,
                   cancelFlag, agent_scratchpad, parsed, llmLog, consultLog>>

\* a faulty scratchpad update: the observation is left out of the transcript
ActionBlock_WithoutObservation ==
    <<NL, "Thought: ">> \o parsed.thought \o <<NL>> \o
    <<"Action: ">> \o parsed.action \o <<NL>> \o
    <<"Action Input: ">> \o JsonDumps(ActionInput) \o <<NL>>

\* lines 435-438
ActionBlock ==
    <<NL, "Thought: ">> \o parsed.thought \o <<NL>> \o
    <<"Action: ">> \o parsed.action \o <<NL>> \o
    <<"Action Input: ">> \o JsonDumps(ActionInput) \o <<NL>> \o
    <<"Observation: ">> \o observation \o <<NL>>

\* a faulty scratchpad update: the completion sentinel ends the run
UpdateScratchpad_ForceEnd ==
    /\ pc = "update_scratchpad"
    /\ agent_scratchpad' =
         agent_scratchpad \o ActionBlock \o
         (IF Contains(observation, Sentinel) THEN SystemNote ELSE <<>>)
    /\ pc' = IF Contains(observation, Sentinel) THEN "done" ELSE "while"
    /\ NoEmit
    /\ UNCHANGED outerVars
    /\ UNCHANGED <<iteration, max_iterations, cancellation_callback, callback,
                   cancelFlag, parsed, observation, llmLog, toolLog, consultLog>>

\* lines 434-446
UpdateScratchpad ==
    /\ pc = "update_scratchpad"
    /\ agent_scratchpad' =
         agent_scratchpad \o ActionBlock \o
         (IF Contains(observation, Sentinel) THEN SystemNote ELSE <<>>)
    /\ pc' = "while"
    /\ NoEmit
    /\ UNCHANGED outerVars
    /\ UNCHANGED <<iteration, max_iterations, cancellation_callback, callback,
                   cancelFlag, parsed, observation, llmLog, toolLog, consultLog>>

\* a faulty thought branch: `=` in place of `+=` overwrites the transcript
AppendThought_Overwrites ==
    /\ pc = "after_thought"
    /\ agent_scratchpad' = <<NL, "Thought: ">> \o parsed.thought \o <<NL>>
    /\ pc' = "while"
    /\ NoEmit
    /\ UNCHANGED outerVars
    /\ UNCHANGED <<iteration, max_iterations, cancellation_callback, callback,
                   cancelFlag, parsed, observation, llmLog, toolLog, consultLog>>

\* line 459
AppendThought ==
    /\ pc = "after_thought"
    /\ agent_scratchpad' =
         agent_scratchpad \o <<NL, "Thought: ">> \o parsed.thought \o <<NL>>
    /\ pc' = "while"
    /\ NoEmit
    /\ UNCHANGED outerVars
    /\ UNCHANGED <<iteration, max_iterations, cancellation_callback, callback,
                   cancelFlag, parsed, observation, llmLog, toolLog, consultLog>>

\* the environment changes what the cancellation predicate returns
SetCancellation ==
    /\ pc # "done"
    /\ cancellation_callback
    /\ cancelFlag' = ~cancelFlag
    /\ cancelMark' = IF cancelFlag THEN None ELSE Mark(Len(llmLog), Len(toolLog))
    /\ UNCHANGED <<tools, parserVars, ctlVars, apiVars, cleanVars, answer, leadVars,
                   streamVars, saveVars>>
    /\ UNCHANGED <<pc, iteration, max_iterations, cancellation_callback, callback,
                   agent_scratchpad, parsed, observation, steps, cbSteps, llmLog,
                   toolLog, consultLog>>

\* the steps of the generator
RunNext ==
    \/ BeginIteration
    \/ Cancelled
    \/ MaxIterationsReached
    \/ InvokeLLM
    \/ InvokeLLMFails
    \/ YieldAction
    \/ ExecuteTool
    \/ UpdateScratchpad
    \/ AppendThought

IsFinalAnswer(step) == step.step_type = "final_answer"

\* lines 484-490: the content of the last final_answer step, if there is one
LastFinalAnswer(ss) ==
    LET finals == SelectSeq(ss, IsFinalAnswer)
    IN  IF finals # <<>> THEN Last(finals).content
                         ELSE <<"No answer generated.">>

\* ReActAgent.run, lines 478-490: the generator was driven to its end with
\* neither a callback nor a cancellation predicate; its steps are scanned
run ==
    /\ pc = "done"
    /\ ~callback /\ ~cancellation_callback
    /\ answer = None
    /\ answer' = Some(LastFinalAnswer(steps))
    /\ UNCHANGED <<runVars, tools, parserVars, ctlVars, apiVars, cleanVars, leadVars,
                   cancelMark, streamVars, saveVars>>

Next == RunNext \/ SetCancellation \/ run

Spec == Init /\ [][Next]_vars

\* the consumer keeps pulling and every model and action call returns or raises
FairSpec == Spec /\ WF_vars(RunNext)

----------------------------------------------------------------------------
(* _parse_react_output on its own: a reply text is drawn, then parsed *)

\* the lines a reply is made of
ReplyLines ==
    { <<>>,
      <<"some text">>,
      <<"Thought:", "plan">>,
      <<"Thought:">>,
      <<"Action:", "lookup">>,
      <<"action:", "lookup", "(", "\"", "x", "\"", ")">>,
      <<"Action:", "<backtick>", "lookup", "(", "x", ")", "<backtick>">>,
      <<"Action:", "<backtick>", "lookup", "<backtick>", "(", "x", ")">>,
      <<"Action:", "'">>,
      <<"Action Input:">>,
      <<"Action Input:", "garbage">>,
      <<"Action Input:", "{\"q\": 1}">>,
      <<"action input:", "{\"ok\": True}">>,
      <<"Action Input:", "{'ok': True, 'v': None}">>,
      <<"Action Input:", "{\"q\": 1}", "and more">>,
      <<"Action Input:", "{}", "and more">>,
      <<"Final Answer:", "done">>,
      <<"final answer:">> }

\* the texts of exactly n lines
RECURSIVE Joined(_)
Joined(n) ==
    IF n = 1 THEN ReplyLines
    ELSE {t \o <<NL>> \o l : t \in Joined(n - 1), l \in ReplyLines}

\* the texts of at most n lines
Texts(n) == UNION {Joined(k) : k \in 1..n}

\* no generator is running
RunIdle ==
    /\ pc = "done"
    /\ iteration = 0
    /\ max_iterations = 0
    /\ cancellation_callback = FALSE
    /\ callback = FALSE
    /\ cancelFlag = FALSE
    /\ cancelMark = None
    /\ agent_scratchpad = <<>>
    /\ parsed = NoParse
    /\ observation = <<>>
    /\ steps = <<>>
    /\ cbSteps = <<>>
    /\ llmLog = <<>>
    /\ toolLog = <<>>
    /\ consultLog = <<>>

ParserInit ==
    /\ reply \in Texts(MaxLines)
    /\ result = NoParse
    /\ tools = AgentTools
    /\ RunIdle /\ CtlOff /\ ApiIdle /\ AuxIdle

\* the call self._parse_react_output(reply)
Parse ==
    /\ result = NoParse
    /\ result' = _parse_react_output(reply)
    /\ UNCHANGED <<reply, tools, runVars, ctlVars, apiVars, auxVars>>

ParserSpec == ParserInit /\ [][Parse]_vars

----------------------------------------------------------------------------
(* LeadResearchController.run: the loop that consumes run_streaming *)

\* controller.py line 197: the texts that count as a saved lead
SavedSentinels == { <<"status", ": ", "saved">>, <<"Saved lead successfully">> }

\* controller.py line 202
CompletedSentinel == <<"task_completed", ": ", "true">>

\* a faulty budget: the logical iterations are used as the raw cap
max_steps_Logical == ctl_max_iterations

\* controller.py line 170: max_steps = self.max_iterations * 15
max_steps == ctl_max_iterations * StepsPerIteration

\* controller.py lines 96-138, 169-176: the controller and the generator it starts
CtlInit ==
    /\ tools = ALL_TOOLS
    /\ ParserIdle /\ ApiIdle /\ AuxIdle
    /\ ctl = "for"
    /\ ctl_max_iterations \in 0..MaxCtlIterations
    /\ target_count \in 1..MaxLeads
    /\ step_callback \in BOOLEAN
    /\ saved_count = 0
    /\ consumed = 0
    /\ forwarded = <<>>
    /\ pc = "while"
    /\ iteration = 0
    /\ max_iterations = max_steps
    /\ cancellation_callback \in BOOLEAN
    /\ callback = FALSE
    /\ cancelFlag \in (IF cancellation_callback THEN BOOLEAN ELSE {FALSE})
    /\ cancelMark = IF cancelFlag THEN Mark(0, 0) ELSE None
    /\ agent_scratchpad = <<>>
    /\ parsed = NoParse
    /\ observation = <<>>
    /\ steps = <<>>
    /\ cbSteps = <<>>
    /\ llmLog = <<>>
    /\ toolLog = <<>>
    /\ consultLog = <<>>

\* the for loop asks the generator for its next step
Resumable == ctl = "for" /\ consumed = Len(steps)

\* controller.py lines 177-213: the loop body for the step just yielded
Consume ==
    /\ ctl = "for"
    /\ consumed < Len(steps)
    /\ LET step == steps[consumed + 1]
           isObservation == step.step_type = "observation"
           saved == isObservation /\ \E t \in SavedSentinels : Contains(step.content, t)
           completed == isObservation /\ Contains(step.content, CompletedSentinel)
       IN  IF cancellation_callback /\ cancelFlag
           THEN /\ ctl' = "done"
                /\ UNCHANGED <<saved_count, consumed, forwarded>>
           ELSE /\ consumed' = consumed + 1
                /\ saved_count' = IF saved THEN saved_count + 1 ELSE saved_count
                /\ forwarded' = IF step_callback THEN Append(forwarded, step)
                                ELSE forwarded
                /\ ctl' = IF completed THEN "done" ELSE "for"
    /\ UNCHANGED <<ctl_max_iterations, target_count, step_callback>>
    /\ UNCHANGED <<tools, runVars, parserVars, apiVars, auxVars>>

\* the generator is exhausted: the for loop ends
Exhausted ==
    /\ Resumable
    /\ pc = "done"
    /\ ctl' = "done"
    /\ UNCHANGED <<ctl_max_iterations, target_count, step_callback, saved_count,
                   consumed, forwarded>>
    /\ UNCHANGED <<tools, runVars, parserVars, apiVars, auxVars>>

CtlNext ==
    \/ Resumable /\ BeginIteration
    \/ Resumable /\ Cancelled
    \/ Resumable /\ MaxIterationsReached
    \/ Resumable /\ InvokeLLM
    \/ Resumable /\ InvokeLLMFails
    \/ Resumable /\ YieldAction
    \/ Resumable /\ ExecuteTool
    \/ Resumable /\ UpdateScratchpad
    \/ Resumable /\ AppendThought
    \/ Consume
    \/ Exhausted
    \/ SetCancellation

CtlSpec == CtlInit /\ [][CtlNext]_vars

----------------------------------------------------------------------------
(* api/main.py: streaming requests and the cancel request *)

ApiInit ==
    /\ tools = ALL_TOOLS
    /\ ApiIdle /\ RunIdle /\ CtlOff /\ ParserIdle /\ AuxIdle

\* lines 266-284: request r starts its run: the module-level flag is rebound
\* to a fresh {"cancelled": False} and the run's predicate reads the module
\* level name each time it is called
StartStream(r) ==
    /\ runs[r] = "idle"
    /\ active_generation_id' = Some(r)
    /\ cancellation_flag' = FALSE
    /\ runs' = [runs EXCEPT ![r] = "active"]
    /\ UNCHANGED <<cancelRequests, cancelledIds, tools, runVars, parserVars, ctlVars,
                   auxVars>>

\* lines 272-273: check_cancellation() of run r returns True (consulted by
\* run_streaming, by LeadResearchController.run and by the event loop)
ObserveCancellation(r) ==
    /\ runs[r] = "active"
    /\ cancellation_flag
    /\ runs' = [runs EXCEPT ![r] = "cancelled"]
    /\ UNCHANGED <<cancellation_flag, active_generation_id, cancelRequests,
                   cancelledIds, tools, runVars, parserVars, ctlVars, auxVars>>

\* lines 353-389: run r ends without having seen the flag set
FinishRun(r) ==
    /\ runs[r] = "active"
    /\ ~cancellation_flag
    /\ runs' = [runs EXCEPT ![r] = "finished"]
    /\ UNCHANGED <<cancellation_flag, active_generation_id, cancelRequests,
                   cancelledIds, tools, runVars, parserVars, ctlVars, auxVars>>

\* lines 406-424: POST cancel; without an active generation nothing changes
cancel_generation ==
    /\ cancelRequests < MaxCancels
    /\ IF active_generation_id = None
       THEN UNCHANGED <<cancellation_flag, active_generation_id, cancelRequests,
                        cancelledIds>>
       ELSE /\ cancellation_flag' = TRUE
            /\ active_generation_id' = None
            /\ cancelRequests' = cancelRequests + 1
            /\ cancelledIds' = cancelledIds \cup
                   {[generation_id |-> r, state |-> runs[r]] : r \in active_generation_id}
    /\ UNCHANGED <<runs, tools, runVars, parserVars, ctlVars, auxVars>>

ApiNext ==
    \/ \E r \in Runs : StartStream(r)
    \/ \E r \in Runs : ObserveCancellation(r)
    \/ \E r \in Runs : FinishRun(r)
    \/ cancel_generation

ApiSpec == ApiInit /\ [][ApiNext]_vars

----------------------------------------------------------------------------
(* _clean_email_data on its own: a nested value is drawn, then cleaned *)

CleanScalars == {Scalar("hi")}

CleanKeys == {"body_html", "subject"}

\* the lists of at most two elements and the dicts of at most two entries
\* (with distinct keys) that hold one value of vs and, where there is a
\* second element, one value of sibs on either side of it
Containers(vs, sibs) ==
    LET pairs == (vs \X sibs) \cup (sibs \X vs)
    IN  {List(<<>>)} \cup {List(<<v>>) : v \in vs}
                     \cup {List(<<p[1], p[2]>>) : p \in pairs}
        \cup {Dict(<<>>)} \cup {Dict(<< <<k, v>> >>) : k \in CleanKeys, v \in vs}
        \cup UNION {{Dict(<< <<k, p[1]>>, <<l, p[2]>> >>) :
                        l \in CleanKeys \ {k}, p \in pairs} : k \in CleanKeys}

\* the values nested at most n deep; beside a value nested more than one
\* deep, the other element of its container is nested at most one deep
RECURSIVE Values(_)
Values(n) ==
    IF n = 0 THEN CleanScalars
    ELSE IF n = 1 THEN CleanScalars \cup Containers(CleanScalars, CleanScalars)
    ELSE CleanScalars \cup Containers(Values(n - 1), Values(1))

CleanInit ==
    /\ data \in Values(MaxDepth)
    /\ cleaned = None
    /\ answer = None
    /\ LEADS_FILE = None /\ addLog = <<>>
    /\ StreamIdle
    /\ SaveIdle
    /\ tools = AgentTools
    /\ RunIdle /\ CtlOff /\ ApiIdle /\ ParserIdle

\* the call self._clean_email_data(data)
Clean ==
    /\ cleaned = None
    /\ cleaned' = Some(_clean_email_data(data))
    /\ UNCHANGED <<data, answer, leadVars, cancelMark, streamVars, saveVars, tools, runVars,
                   parserVars, ctlVars, apiVars>>

CleanSpec == CleanInit /\ [][Clean]_vars

----------------------------------------------------------------------------
(* state.py: the lead store, one add_lead call at a time *)

Domains == {"acme.io", "Acme.IO", "ACME.io", "beta.com"}

\* str.lower() on the domains above
Lower(d) == IF d \in {"Acme.IO", "ACME.io"} THEN "acme.io" ELSE d

\* the leads handed to add_lead (the fields the function reads)
Leads == [company_name : {"Acme", "Beta"}, domain : Domains]

\* product descriptions, all shorter than the 200 characters kept at line 82
ProductDescriptions == {"crm for dentists"}

\* lines 48-57: [] when there is no file, its decoded content otherwise
load_leads == IF LEADS_FILE = None THEN <<>> ELSE CHOOSE leads \in LEADS_FILE : TRUE

\* lines 59-66: the file is rewritten with the whole list
save_leads(leads) == LEADS_FILE' = Some(leads)

\* a faulty comparison: domains are compared as they are written
IsDuplicate_CaseSensitive(existing, lead) == existing.domain = lead.domain

\* line 77
IsDuplicate(existing, lead) == Lower(existing.domain) = Lower(lead.domain)

\* lines 68-88; discovered_at, the time of the call, is left out of the record
add_lead(lead, product_description) ==
    LET existing_leads == load_leads
    IN  IF \E i \in 1..Len(existing_leads) : IsDuplicate(existing_leads[i], lead)
        THEN /\ addLog' = Append(addLog, [lead |-> lead, returned |-> FALSE])
             /\ UNCHANGED LEADS_FILE
        ELSE /\ save_leads(Append(existing_leads,
                    [company_name |-> lead.company_name, domain |-> lead.domain,
                     product_context |-> product_description]))
             /\ addLog' = Append(addLog, [lead |-> lead, returned |-> TRUE])

LeadsInit ==
    /\ LEADS_FILE = None
    /\ addLog = <<>>
    /\ StreamIdle
    /\ SaveIdle
    /\ data = Scalar("x") /\ cleaned = None /\ answer = None
    /\ tools = AgentTools
    /\ RunIdle /\ CtlOff /\ ApiIdle /\ ParserIdle

AddLead ==
    /\ Len(addLog) < MaxAdds
    /\ \E lead \in Leads, product_description \in ProductDescriptions :
         add_lead(lead, product_description)
    /\ UNCHANGED <<cleanVars, answer, cancelMark, streamVars, saveVars, tools, runVars, parserVars,
                   ctlVars, apiVars>>

LeadsSpec == LeadsInit /\ [][AddLead]_vars

----------------------------------------------------------------------------
(* api/main.py: one streaming response that is not cancelled; the          *)
(* controller thread and the polling loop of event_generator interleave    *)

\* what queue_callback puts for a step of the given type (lines 319-329)
StepMessage(step_type) == [kind |-> "step", step |-> step_type]

LeadMessage == [kind |-> "lead", step |-> "none"]

CompleteMessage == [kind |-> "complete", step |-> "none"]

ErrorMessage == [kind |-> "error", step |-> "none"]

\* the step types controller.run hands to the step callback
ForwardedTypes == {"thought", "action", "observation", "final_answer"}

\* lines 357-380: the events yielded for a message taken from the queue
EventsOf(message) ==
    CASE message.kind = "lead"     -> <<"lead">>
      [] message.kind = "complete" -> <<"complete">>
      [] message.kind = "error"    -> <<"error">>
      [] message.step = "thought"  -> <<"step: thinking">>
      [] message.step = "action"   -> <<"step: action">>
      [] message.step = "observation" -> <<"observation">>
      [] OTHER                     -> <<>>

put(message) ==
    /\ message_queue' = Append(message_queue, message)
    /\ produced' = Append(produced, message)

\* lines 345-349: the thread is started, the loop begins; the flag was reset
StreamInit ==
    /\ message_queue = <<>>
    /\ thread = "run"
    /\ stream = "check"
    /\ events = <<>>
    /\ produced = <<>>
    /\ SaveIdle
    /\ data = Scalar("x") /\ cleaned = None /\ answer = None
    /\ LEADS_FILE = None /\ addLog = <<>>
    /\ tools = ALL_TOOLS
    /\ RunIdle /\ CtlOff /\ ApiIdle /\ ParserIdle

StreamFrame == UNCHANGED <<cleanVars, answer, leadVars, cancelMark, saveVars, tools, runVars,
                           parserVars, ctlVars, apiVars>>

\* lines 319-331: controller.run forwards a step, queue_callback puts it
PutStep ==
    /\ thread = "run"
    /\ Len(produced) < MaxMessages
    /\ \E t \in ForwardedTypes : put(StepMessage(t))
    /\ UNCHANGED <<thread, stream, events>>
    /\ StreamFrame

\* lines 332-336: controller.run has returned; one message per lead
PutLead ==
    /\ thread \in {"run", "leads"}
    /\ Len(produced) < MaxMessages
    /\ put(LeadMessage)
    /\ thread' = "leads"
    /\ UNCHANGED <<stream, events>>
    /\ StreamFrame

\* line 339
PutComplete ==
    /\ thread \in {"run", "leads"}
    /\ put(CompleteMessage)
    /\ thread' = "return"
    /\ UNCHANGED <<stream, events>>
    /\ StreamFrame

\* lines 341-343: controller.run raised
PutError ==
    /\ thread = "run"
    /\ put(ErrorMessage)
    /\ thread' = "return"
    /\ UNCHANGED <<stream, events>>
    /\ StreamFrame

\* run_controller returns: thread.is_alive() is False from now on
ThreadExits ==
    /\ thread = "return"
    /\ thread' = "dead"
    /\ UNCHANGED <<message_queue, produced, stream, events>>
    /\ StreamFrame

\* line 353: the flag is not set, the loop goes on to the queue
CheckCancelled ==
    /\ stream = "check"
    /\ ~cancellation_flag
    /\ stream' = "get"
    /\ UNCHANGED <<message_queue, produced, thread, events>>
    /\ StreamFrame

\* lines 359-380: message_queue.get returned a message within the timeout
GetMessage ==
    /\ stream = "get"
    /\ message_queue # <<>>
    /\ LET message == Head(message_queue)
       IN  /\ events' = events \o EventsOf(message)
           /\ stream' = IF message.kind \in {"complete", "error"} THEN "done"
                        ELSE "check"
    /\ message_queue' = Tail(message_queue)
    /\ UNCHANGED <<produced, thread>>
    /\ StreamFrame

\* line 359, 382: the queue stayed empty for the timeout, get raised Empty
GetTimesOut ==
    /\ stream = "get"
    /\ message_queue = <<>>
    /\ stream' = "except"
    /\ UNCHANGED <<message_queue, produced, thread, events>>
    /\ StreamFrame

\* lines 383-386: `if not thread.is_alive(): break`, else sleep and poll again
CheckThread ==
    /\ stream = "except"
    /\ stream' = IF thread = "dead" THEN "done" ELSE "check"
    /\ UNCHANGED <<message_queue, produced, thread, events>>
    /\ StreamFrame

StreamNext ==
    \/ PutStep
    \/ PutLead
    \/ PutComplete
    \/ PutError
    \/ ThreadExits
    \/ CheckCancelled
    \/ GetMessage
    \/ GetTimesOut
    \/ CheckThread

StreamSpec == StreamInit /\ [][StreamNext]_vars

----------------------------------------------------------------------------
(* agent/tools/database_tools.py: save_lead_tool called from several       *)
(* threads (one controller run per streaming request); find_one and        *)
(* insert_one are two requests to the database server                      *)

SaveDomains == {"acme.com", "beta.io"}

\* find_one({'domain': domain}) is not None
Stored(domain) ==
    \E i \in 1..Len(leads_collection) : leads_collection[i].domain = domain

\* calls begun so far
SaveCalls ==
    Len(saveLog) + Cardinality({t \in Savers : saver[t].pc # "idle"})

\* the call of thread t returns a dict with the given status
SaveReturns(t, status) ==
    /\ saveLog' = Append(saveLog, [domain |-> saver[t].domain, status |-> status,
                                   stored_at_call |-> saver[t].stored_at_call])
    /\ saver' = [saver EXCEPT ![t] = IdleSaver]

SaveInit ==
    /\ SaveIdle
    /\ StreamIdle
    /\ data = Scalar("x") /\ cleaned = None /\ answer = None
    /\ LEADS_FILE = None /\ addLog = <<>>
    /\ tools = ALL_TOOLS
    /\ RunIdle /\ CtlOff /\ ApiIdle /\ ParserIdle

SaveFrame == UNCHANGED <<cleanVars, answer, leadVars, cancelMark, streamVars, tools,
                         runVars, parserVars, ctlVars, apiVars>>

\* lines 25-68: the tool is entered and the client is created
CallSave(t) ==
    /\ saver[t].pc = "idle"
    /\ SaveCalls < MaxSaves
    /\ \E domain \in SaveDomains :
         saver' = [saver EXCEPT ![t] = [pc |-> "find", domain |-> domain,
                                        stored_at_call |-> Stored(domain)]]
    /\ UNCHANGED <<leads_collection, saveLog>>
    /\ SaveFrame

\* lines 71-79: the duplicate check
FindOne(t) ==
    /\ saver[t].pc = "find"
    /\ IF Stored(saver[t].domain)
       THEN SaveReturns(t, "duplicate")
       ELSE /\ saver' = [saver EXCEPT ![t].pc = "insert"]
            /\ UNCHANGED saveLog
    /\ UNCHANGED leads_collection
    /\ SaveFrame

\* lines 81-121: the document is built and inserted
InsertOne(t) ==
    /\ saver[t].pc = "insert"
    /\ leads_collection' = Append(leads_collection,
           [domain |-> saver[t].domain, _id |-> Len(leads_collection) + 1])
    /\ SaveReturns(t, "success")
    /\ SaveFrame

\* lines 123-125: a request to the server raised
SaveRaises(t) ==
    /\ saver[t].pc \in {"find", "insert"}
    /\ SaveReturns(t, "error")
    /\ UNCHANGED leads_collection
    /\ SaveFrame

SaveNext ==
    \E t \in Savers :
        \/ CallSave(t)
        \/ FindOne(t)
        \/ InsertOne(t)
        \/ SaveRaises(t)

SaveSpec == SaveInit /\ [][SaveNext]_vars


----------------------------------------------------------------------------
(* Vocabulary of the properties *)

Done == pc = "done"

StepIndexes(step_type) == {i \in 1..Len(steps) : steps[i].step_type = step_type}

Count(step_type) == Cardinality(StepIndexes(step_type))

\* the model invocation of the run failed
LLMFailed == \E i \in 1..Len(llmLog) : llmLog[i].type = "error"

IsCancelNotice(s) == s.step_type = "final_answer" /\ s.content = CancelMsg

IsCapNotice(s) == s.step_type = "final_answer" /\ s.content = CapMsg(max_iterations)

\* a final-answer step carrying the answer of a model reply of the run
IsModelAnswer(s) ==
    /\ s.step_type = "final_answer"
    /\ \E i \in 1..Len(llmLog) :
         /\ llmLog[i].type = "final_answer"
         /\ s.content = _parse_react_output(llmLog[i].output).content

\* no consultation of the cancellation predicate returned true
NeverCancelled == \A i \in 1..Len(consultLog) : ~consultLog[i].value

\* the text carries a terminal marker followed by some text
HasFinalMarker(text) ==
    \E i \in 1..(Len(text) - 1) : text[i] \in FinalMarkers

\* after iteration `it` the run went on: the model was invoked in iteration it+1,
\* unless the cap was reached or the predicate was true at that boundary
WentOnAfter(it) ==
    \/ \E i \in 1..Len(llmLog) : llmLog[i].iteration = it + 1
    \/ it = max_iterations
    \/ \E i \in 1..Len(consultLog) :
         consultLog[i].iteration = it + 1 /\ consultLog[i].value

----------------------------------------------------------------------------
(* C1: in a run in which every model invocation replies, exactly one       *)
(* terminal step (final answer, cancellation notice or cap-reached notice) *)
(* is emitted, and it is the last step of the run.                         *)

C1_ExactlyOneTerminalLast ==
    /\ Count("final_answer") <= 1
    /\ \A i \in StepIndexes("final_answer") :
         /\ i = Len(steps)
         /\ Done
         /\ IsModelAnswer(steps[i]) \/ IsCancelNotice(steps[i]) \/ IsCapNotice(steps[i])
    /\ (Done /\ ~LLMFailed) => Count("final_answer") = 1

C1_Witness ==
    /\ Done /\ ~LLMFailed
    /\ Len(steps) >= 4
    /\ IsCancelNotice(Last(steps))

----------------------------------------------------------------------------
(* C2: when a run has ended (final answer, cap, cancellation or model      *)
(* failure) it has emitted as many observation steps as action steps.      *)

C2_ObservationsEqualActions ==
    Done => Count("observation") = Count("action")

C2_Witness ==
    /\ Done /\ LLMFailed
    /\ Count("action") = 2
    /\ \E i \in 1..Len(toolLog) : toolLog[i].outcome = "none"

----------------------------------------------------------------------------
\* every reply so far was an action request
OnlyActionReplies == \A i \in 1..Len(llmLog) : llmLog[i].type = "action"

(* C3: when every reply is an action request and the predicate is never    *)
(* true, a run with max_iterations = N invokes the model exactly N times,  *)
(* emits exactly N action steps each directly followed by its observation  *)
(* step, then exactly one cap-reached terminal step, and no iteration N+1  *)
(* starts.                                                                 *)

C3_CapAfterNCycles ==
    (Done /\ OnlyActionReplies /\ NeverCancelled) =>
        /\ Len(llmLog) = max_iterations
        /\ iteration = max_iterations
        /\ Count("action") = max_iterations
        /\ \A k \in 1..max_iterations :
             \E i \in 1..(Len(steps) - 1) :
                /\ steps[i].step_type = "action" /\ steps[i].iteration = k
                /\ steps[i + 1].step_type = "observation"
                /\ steps[i + 1].iteration = k
                /\ steps[i + 1].tool_name = steps[i].tool_name
        /\ Count("observation") = max_iterations
        /\ Count("final_answer") = 1
        /\ IsCapNotice(Last(steps))
        /\ \A i \in 1..Len(steps) : steps[i].iteration <= max_iterations

C3_Witness ==
    /\ Done /\ OnlyActionReplies /\ NeverCancelled
    /\ max_iterations >= 2
    /\ Len(llmLog) = max_iterations


----------------------------------------------------------------------------
(* C4: if the cancellation predicate is true when iteration k begins, the  *)
(* run invokes neither the model nor any action in iteration k or later,   *)
(* emits no step of iteration k or later other than one terminal step, and *)
(* that terminal step is the cancellation notice.                          *)

C4_CancelledAtIterationStart ==
    \A c \in 1..Len(consultLog) :
        consultLog[c].value =>
            LET k == consultLog[c].iteration
            IN  /\ Done
                /\ \A i \in 1..Len(llmLog) : llmLog[i].iteration < k
                /\ \A i \in 1..Len(toolLog) : toolLog[i].iteration < k
                /\ steps # <<>>
                /\ IsCancelNotice(Last(steps))
                /\ Last(steps).iteration = k
                /\ \A i \in 1..(Len(steps) - 1) :
                     steps[i].iteration < k /\ steps[i].step_type # "final_answer"

C4_Witness ==
    /\ \E c \in 1..Len(consultLog) : consultLog[c].value /\ consultLog[c].iteration = 3
    /\ Count("observation") = 2

----------------------------------------------------------------------------
(* C5: with a predicate that is never true and a cap of at least 1, if the *)
(* model's first reply carries a final answer the run emits exactly one    *)
(* step, the final-answer step with the answer text; no action or          *)
(* observation step is emitted, no action is executed and the model is     *)
(* invoked exactly once.                                                   *)

C5_FinalAnswerOnly ==
    (Done /\ llmLog # <<>> /\ HasFinalMarker(llmLog[1].output)) =>
        LET out == llmLog[1].output
            f   == FindFirst(out, FinalMarkers)
        IN  /\ Len(steps) = 1
            /\ steps[1].step_type = "final_answer"
            /\ steps[1].content = Strip(SubSeq(out, f + 1, Len(out)))
            /\ Count("action") = 0 /\ Count("observation") = 0
            /\ toolLog = <<>>
            /\ Len(llmLog) = 1

C5_Witness ==
    /\ Done /\ Len(llmLog) = 1 /\ HasFinalMarker(llmLog[1].output)
    /\ steps[1].content = <<"ok">>
    /\ max_iterations >= 2


----------------------------------------------------------------------------
(* C6: every run terminates: when the consumer keeps pulling and every     *)
(* model and action invocation returns or raises, the run reaches its      *)
(* terminal step, after at most max_iterations model invocations, whatever *)
(* the model replies and the actions return.                               *)

----------------------------------------------------------------------------
(* Vocabulary of the dispatch properties *)

\* the action of iteration k has been recorded in the transcript
Recorded(k) == iteration > k \/ (iteration = k /\ pc \in {"while", "done"})

\* the steps of iteration k are an action step for `name` directly followed by
\* an observation step with content `obs`, and once recorded the transcript
\* holds the action and its observation
CycleEmitted(k, name, obs) ==
    /\ \E i \in 2..Len(steps) :
         /\ steps[i].step_type = "observation" /\ steps[i].iteration = k
         /\ steps[i].tool_name = Some(name) /\ steps[i].content = obs
         /\ steps[i - 1].step_type = "action" /\ steps[i - 1].iteration = k
         /\ steps[i - 1].tool_name = Some(name)
         /\ Done => i < Len(steps)
    /\ Recorded(k) =>
         /\ Contains(agent_scratchpad, <<"Action: ">> \o name \o <<NL>>)
         /\ Contains(agent_scratchpad, <<"Observation: ">> \o obs \o <<NL>>)

\* the observation step emitted in iteration k
ObservationOf(k) ==
    LET i == CHOOSE j \in 1..Len(steps) :
                steps[j].step_type = "observation" /\ steps[j].iteration = k
    IN  steps[i].content

----------------------------------------------------------------------------
(* C7: dispatching an action whose name is not in the catalog invokes no   *)
(* capability and gives an error observation that contains the name; the   *)
(* run does not end because of it: the action and observation steps are    *)
(* emitted and recorded in the transcript and, unless the cap is reached   *)
(* or cancellation is set, the next iteration invokes the model again.     *)

C7_UnregisteredAction ==
    \A t \in 1..Len(toolLog) :
        toolLog[t].tool_name \notin tool_map =>
            LET k    == toolLog[t].iteration
                name == toolLog[t].tool_name
                obs  == ObservationOf(k)
            IN  /\ toolLog[t].outcome = "none"
                /\ Head(obs) = "Error: Tool '"
                /\ Contains(obs, name)
                /\ CycleEmitted(k, name, obs)
                /\ Done => WentOnAfter(k)

C7_Witness ==
    /\ Done
    /\ \E t \in 1..Len(toolLog) :
         /\ toolLog[t].tool_name \notin tool_map
         /\ toolLog[t].iteration = 1
    /\ Len(llmLog) >= 2
    /\ IsModelAnswer(Last(steps))

----------------------------------------------------------------------------
\* the positions of the generator
Locations == {"while", "invoke_llm", "yield_action", "execute_tool",
              "update_scratchpad", "after_thought", "done"}

(* C8: when a registered capability raises, _execute_tool returns an error *)
(* string naming the action; the exception does not reach run_streaming,   *)
(* which emits the observation step with that string, records it in the    *)
(* transcript and continues to the next iteration.                         *)

C8_CapabilityRaises ==
    /\ pc \in Locations
    /\ \A t \in 1..Len(toolLog) :
        toolLog[t].outcome = "raises" =>
            LET k    == toolLog[t].iteration
                name == toolLog[t].tool_name
                obs  == ObservationOf(k)
            IN  /\ name \in tool_map
                /\ Head(obs) = "Error executing tool '"
                /\ Contains(obs, name)
                /\ CycleEmitted(k, name, obs)
                /\ Done => WentOnAfter(k)

C8_Witness ==
    /\ Done
    /\ \E t \in 1..Len(toolLog) :
         toolLog[t].outcome = "raises" /\ toolLog[t].iteration = 1
    /\ Len(llmLog) >= 2
    /\ IsModelAnswer(Last(steps))


----------------------------------------------------------------------------
\* this step is a failing model invocation
FailsNow == Len(llmLog') = Len(llmLog) + 1 /\ Last(llmLog').type = "error"

(* C9: if the model invocation of iteration k fails, the run emits exactly *)
(* one error-kind step as its last step, does not invoke the model again,  *)
(* executes no action in iteration k and ends; the steps emitted before    *)
(* are unchanged.                                                          *)

C9_ModelFailureIsFatal ==
    [][ /\ FailsNow =>
            LET k == Last(llmLog').iteration
            IN  /\ Len(steps') = Len(steps) + 1
                /\ SubSeq(steps', 1, Len(steps)) = steps
                /\ Last(steps').step_type = "error"
                /\ Last(steps').iteration = k
                /\ \A i \in 1..Len(steps) :
                     steps[i].step_type # "error" /\ steps[i].iteration < k
                /\ \A i \in 1..Len(llmLog) : llmLog[i].iteration < k
                /\ toolLog' = toolLog
                /\ \A i \in 1..Len(toolLog) : toolLog[i].iteration < k
                /\ pc' = "done"
        /\ LLMFailed => UNCHANGED <<pc, steps, cbSteps, llmLog, toolLog>>
        /\ (~LLMFailed /\ ~FailsNow) => \A i \in 1..Len(steps') :
                                            steps'[i].step_type # "error"
      ]_vars

C9_Witness ==
    /\ Done /\ LLMFailed
    /\ Len(llmLog) = 3
    /\ Count("observation") >= 1
    /\ Count("thought") >= 2

----------------------------------------------------------------------------
\* the number of places where needle occurs in text
Occurrences(text, needle) ==
    Cardinality({i \in 0..(Len(text) - Len(needle)) :
                    \A j \in 1..Len(needle) : text[i + j] = needle[j]})

\* the observation steps that carry the sentinel and are recorded
RecordedSentinels ==
    {i \in StepIndexes("observation") :
        Contains(steps[i].content, Sentinel) /\ Recorded(steps[i].iteration)}

(* C10: an observation containing the completion sentinel [END_TASK] never *)
(* ends the run by itself: one system note is appended to the transcript   *)
(* right after that observation and, unless the cap is reached or          *)
(* cancellation is set, the model is invoked again; the run ends only by a *)
(* model final answer, the cap, cancellation or a model failure.           *)

C10_SentinelIsAdvisory ==
    /\ \A i \in StepIndexes("observation") :
         Contains(steps[i].content, Sentinel) =>
            /\ Recorded(steps[i].iteration) =>
                 Contains(agent_scratchpad,
                          <<"Observation: ">> \o steps[i].content \o <<NL>> \o SystemNote)
            /\ Done => i < Len(steps) /\ WentOnAfter(steps[i].iteration)
    /\ Occurrences(agent_scratchpad, SystemNote) = Cardinality(RecordedSentinels)
    /\ Done => \/ IsModelAnswer(Last(steps))
               \/ IsCapNotice(Last(steps)) /\ iteration = max_iterations
               \/ IsCancelNotice(Last(steps)) /\ Last(consultLog).value
               \/ Last(steps).step_type = "error" /\ Last(llmLog).type = "error"

C10_Witness ==
    /\ Done
    /\ Cardinality(RecordedSentinels) = 2
    /\ IsModelAnswer(Last(steps))


----------------------------------------------------------------------------
(* Vocabulary of the ordering properties *)

\* the steps sequence s is ordered by iteration
OrderedByIteration(s) ==
    \A i \in 1..Len(s) : \A j \in i..Len(s) : s[i].iteration <= s[j].iteration

\* the text recorded in the transcript for the steps of a finished iteration n
RecordedIn(text, n) ==
    \A i \in 1..Len(steps) :
        steps[i].iteration = n =>
            /\ steps[i].step_type = "observation" =>
                 Contains(text, <<"Observation: ">> \o steps[i].content \o <<NL>>)
            /\ steps[i].step_type = "action" =>
                 Contains(text, <<"Action: ">> \o steps[i].content \o <<NL>>)
            /\ steps[i].step_type = "thought" =>
                 Contains(text, <<"Thought: ">> \o steps[i].content \o <<NL>>)

----------------------------------------------------------------------------
(* C11: the observation step of iteration n is emitted before any step of  *)
(* iteration n+1, and the model is invoked for iteration n+1 only after    *)
(* the thought, action and observation of iteration n are in the           *)
(* transcript, so the prompt of iteration n+1 contains the observation of  *)
(* iteration n.                                                            *)

C11_ObservationBeforeNextIteration ==
    /\ OrderedByIteration(steps)
    /\ \A i \in 1..Len(llmLog) :
         \A n \in 1..(llmLog[i].iteration - 1) :
            /\ RecordedIn(llmLog[i].prompt, n)
            /\ \A t \in 1..Len(toolLog) :
                 toolLog[t].iteration = n =>
                    \E j \in 1..Len(steps) :
                       steps[j].step_type = "observation" /\ steps[j].iteration = n

C11_Witness ==
    /\ Len(llmLog) = 3
    /\ \E j \in 1..Len(steps) :
         /\ steps[j].step_type = "observation" /\ steps[j].iteration = 2
         /\ Contains(llmLog[3].prompt,
                     <<"Observation: ">> \o steps[j].content \o <<NL>>)


----------------------------------------------------------------------------
\* the consumer has received step: it was yielded last and, when a callback
\* was given, the callback was called with it last
DeliveredLast(step) ==
    /\ steps # <<>> /\ Last(steps) = step
    /\ callback => (cbSteps # <<>> /\ Last(cbSteps) = step)

\* within one iteration a thought step comes before the action step
ThoughtBeforeAction(s) ==
    \A i \in 1..Len(s) : \A j \in 1..Len(s) :
        (/\ s[i].step_type = "thought" /\ s[j].step_type = "action"
         /\ s[i].iteration = s[j].iteration) => i < j

\* the dispatch of the current action happens in this transition
Dispatches == Len(toolLog') = Len(toolLog) + 1

(* C12: the action step is delivered to the consumer (callback called and  *)
(* step yielded) before the capability is invoked, and the thought step of *)
(* the same reply is delivered before the action step.                     *)

C12_ActionDeliveredBeforeDispatch ==
    [][/\ Dispatches =>
            /\ DeliveredLast(ReActStep("action", Last(toolLog').tool_name,
                                       Some(Last(toolLog').tool_name),
                                       parsed.action_input, None,
                                       Last(toolLog').iteration))
            /\ parsed.thought # <<>> =>
                 /\ Len(steps) >= 2
                 /\ steps[Len(steps) - 1] =
                        ReActStep("thought", parsed.thought, None, None, None,
                                  iteration)
       /\ ThoughtBeforeAction(steps') /\ ThoughtBeforeAction(cbSteps')]_vars

C12_Witness ==
    /\ callback
    /\ \E t \in 1..Len(toolLog) : toolLog[t].outcome = "text"
    /\ \E j \in 2..Len(cbSteps) :
         /\ cbSteps[j].step_type = "action" /\ cbSteps[j - 1].step_type = "thought"
         /\ cbSteps[j].iteration = cbSteps[j - 1].iteration


----------------------------------------------------------------------------
\* the transcript part of a recorded prompt (BuildPrompt without its frame)
TranscriptOf(prompt) == SubSeq(prompt, 3, Len(prompt) - 2)

\* every invocation after the first sees the previous transcript, extended
TranscriptsGrow(log) ==
    /\ log # <<>> => TranscriptOf(log[1].prompt) = <<>>
    /\ \A i \in 1..(Len(log) - 1) :
         /\ IsPrefix(TranscriptOf(log[i].prompt), TranscriptOf(log[i + 1].prompt))
         /\ Len(TranscriptOf(log[i].prompt)) < Len(TranscriptOf(log[i + 1].prompt))

(* C13: the transcript only grows by appending: it starts empty, every     *)
(* update keeps the previous transcript as a prefix, and every iteration   *)
(* that does not end the run (action, thought-only, unrecognized reply)    *)
(* appends at least one block, so the transcript of the next prompt is     *)
(* strictly longer.                                                        *)

C13_TranscriptAppendOnly ==
    [][/\ IsPrefix(agent_scratchpad, agent_scratchpad')
       /\ TranscriptsGrow(llmLog')]_vars

C13_Witness ==
    /\ Len(llmLog) = 3
    /\ llmLog[1].type = "thought" /\ llmLog[2].type = "unknown"
    /\ llmLog[2].output = <<>>
    /\ Len(TranscriptOf(llmLog[2].prompt)) < Len(TranscriptOf(llmLog[3].prompt))


----------------------------------------------------------------------------
(* Vocabulary of the parser properties: about the reply handed to Parse *)

Parsed == result # NoParse

HasTerminalMarker == FindFirst(reply, FinalMarkers) # 0

\* the text after the first terminal marker, trimmed
AfterTerminalMarker ==
    Strip(SubSeq(reply, FindFirst(reply, FinalMarkers) + 1, Len(reply)))

\* the Action line of the reply: the text after its first Action marker
ActionLine ==
    IF FindFirst(reply, ActionMarkers) = 0 THEN <<>>
    ELSE LineAfter(reply, FindFirst(reply, ActionMarkers))

IsNotQuote(tok) == tok \notin QuoteTokens

\* the Action line is  name(args) : the name written before the first '(',
\* without quotes and backticks; <<>> when the line has no such form
CalledName ==
    LET k == FindFirst(ActionLine, {"("})
    IN  IF k = 0 THEN <<>> ELSE SelectSeq(SubSeq(ActionLine, 1, k - 1), IsNotQuote)

\* a payload json.loads accepts, as written or after the repair pass
Decodable(tok) == JsonLoads(tok) # None \/ JsonLoads(CleanJson(tok)) # None

\* the payloads of the reply: the object tokens that follow an Action Input marker
Payloads ==
    {reply[ObjectAt(reply, i)] : i \in InputCandidates(reply)}

\* the reply has one Action Input block and tok is its payload
OnlyPayload(tok) ==
    /\ Cardinality({i \in 1..Len(reply) : reply[i] \in InputMarkers}) = 1
    /\ Payloads = {tok}

(* C17: every reply that contains the marker "Final Answer:" (any letter   *)
(* case) is parsed as final_answer whose content is the text after the     *)
(* marker, trimmed, whatever other markers the reply contains.             *)

C17_TerminalMarkerAlwaysWins ==
    (Parsed /\ HasTerminalMarker) =>
        /\ result.type = "final_answer"
        /\ result.content = AfterTerminalMarker

(* C18: a reply without terminal marker whose Action line is name(args) is *)
(* parsed as an action named by the text before the first '(' with quotes  *)
(* and backticks removed, with the decoded Action Input as its input.      *)

C18_CallSyntaxName ==
    (Parsed /\ ~HasTerminalMarker /\ CalledName # <<>>) =>
        /\ result.type = "action"
        /\ result.action = CalledName
        /\ \A tok \in Payloads :
              (OnlyPayload(tok) /\ JsonLoads(tok) # None) =>
                  result.action_input = JsonLoads(tok)

(* C19: for a reply whose Action Input payload is {'ok': True, 'v': None}  *)
(* the repair pass yields the input {"ok": true, "v": null}.               *)

C19_RepairsPythonLiterals ==
    (/\ Parsed /\ ~HasTerminalMarker /\ result.type = "action"
     /\ OnlyPayload("{'ok': True, 'v': None}")) =>
        result.action_input = Some(<< <<"ok", "true">>, <<"v", "null">> >>)

(* C20: every reply that names an action and whose Action Input is         *)
(* missing, empty or undecodable even after the repair pass is parsed as   *)
(* an action with that name and the empty input map.                       *)

----------------------------------------------------------------------------
(* Vocabulary of the controller properties *)

\* the steps the controller loop has gone through
Scanned == SubSeq(steps, 1, consumed)

\* the model is invoked or an action is dispatched in this transition
ModelOrToolCalled == llmLog' # llmLog \/ toolLog' # toolLog

(* C14: LeadResearchController.run ends the run once the count of          *)
(* successful saves reaches target_count: after the observation that       *)
(* brings the count to target_count, the model is not invoked again and no *)
(* further action is executed.                                             *)

C14_StopsAtTargetCount ==
    [][SuccessfulSaves(Scanned) >= target_count => ~ModelOrToolCalled]_vars

(* C15: at every point of a controller run, saved_count equals the number  *)
(* of observations so far that report a successful save by save_lead_tool. *)

C15_SavedCountMatchesSaves ==
    ctl # "off" => saved_count = SuccessfulSaves(Scanned)


----------------------------------------------------------------------------
\* the runs whose predicate has returned True
CancelledRuns == {r \in Runs : runs[r] = "cancelled"}

(* C16: concurrent runs are isolated in their cancellation: each streaming *)
(* run owns its predicate, so one cancel request makes at most one run     *)
(* observe cancellation and the other active runs continue unaffected.     *)

C16_CancelReachesOneRun ==
    Cardinality(CancelledRuns) <= cancelRequests


----------------------------------------------------------------------------
(* Vocabulary of the redaction property *)

\* some dict inside v, at any depth, has an entry keyed body_html
RECURSIVE HasBodyHtml(_)
HasBodyHtml(v) ==
    CASE v.type = "scalar" -> FALSE
      [] v.type = "list"   -> \E i \in 1..Len(v.value) : HasBodyHtml(v.value[i])
      [] OTHER             ->
            \E i \in 1..Len(v.value) :
                v.value[i][1] = "body_html" \/ HasBodyHtml(v.value[i][2])

\* the positions of the entries of a dict that are not keyed body_html
OtherEntries(v) == {i \in 1..Len(v.value) : v.value[i][1] # "body_html"}

\* the position in v of the k-th entry that is not keyed body_html
NthOther(v, k) ==
    CHOOSE i \in OtherEntries(v) :
        Cardinality({j \in OtherEntries(v) : j <= i}) = k

\* w is v without its body_html entries: same kind, same elements and other
\* entries in the same order, each of them redacted in turn
RECURSIVE RedactionOf(_, _)
RedactionOf(v, w) ==
    /\ w.type = v.type
    /\ CASE v.type = "scalar" -> w.value = v.value
         [] v.type = "list"   ->
               /\ Len(w.value) = Len(v.value)
               /\ \A i \in 1..Len(v.value) : RedactionOf(v.value[i], w.value[i])
         [] OTHER             ->
               /\ Len(w.value) = Cardinality(OtherEntries(v))
               /\ \A k \in 1..Len(w.value) :
                     /\ w.value[k][1] = v.value[NthOther(v, k)][1]
                     /\ RedactionOf(v.value[NthOther(v, k)][2], w.value[k][2])

(* C21: for every nested value of mappings, sequences and scalars,         *)
(* _clean_email_data returns the same structure, values and order except   *)
(* that every entry keyed body_html is absent at every depth; a value      *)
(* without such an entry comes back unchanged.                             *)

C21_RedactsBodyHtmlOnly ==
    \A w \in cleaned :
        /\ ~HasBodyHtml(w)
        /\ RedactionOf(data, w)
        /\ ~HasBodyHtml(data) => w = data

C21_Witness ==
    /\ data = List(<< Dict(<< <<"body_html", Scalar("hi")>>,
                              <<"subject", Scalar("hi")>> >>),
                      Scalar("hi") >>)
    /\ cleaned = Some(List(<< Dict(<< <<"subject", Scalar("hi")>> >>),
                              Scalar("hi") >>))


----------------------------------------------------------------------------
(* Vocabulary of the failure diagnostics *)

IsContextDiagnostic(content) == Contains(content, <<"Context Length Exceeded!">>)

IsGenericDiagnostic(content) == content # <<>> /\ content[1] = "LLM error: "

\* the run ended on a model invocation failure
EndedOnFailure == Done /\ llmLog # <<>> /\ Last(llmLog).type = "error"

(* C22: the blocking ReActAgent.run returns the content of the terminal    *)
(* step of the run it drove, however the run ended: model final answer,    *)
(* cap-reached notice or model-failure error step.                         *)

C22_RunReturnsTerminalContent ==
    \A a \in answer : steps # <<>> /\ a = Last(steps).content

(* C23: on a model invocation failure the terminal error step carries the  *)
(* context-length-exceeded diagnostic if and only if the failure is a      *)
(* context-length exhaustion; transport and quota failures carry the       *)
(* generic "LLM error" diagnostic.                                         *)

C23_ContextDiagnosticOnlyForContext ==
    EndedOnFailure =>
        /\ Last(steps).step_type = "error"
        /\ IsContextDiagnostic(Last(steps).content)
               <=> Last(llmLog).output = ContextFailure
        /\ Last(llmLog).output \in {TransportFailure, QuotaFailure}
               => IsGenericDiagnostic(Last(steps).content)


----------------------------------------------------------------------------
(* Vocabulary of the lead store properties *)

\* the leads in the store
StoredLeads(file) == IF file = None THEN <<>> ELSE CHOOSE leads \in file : TRUE

\* the call just made appended its lead, and only that, to the store
AppendedLead(e) ==
    /\ Len(StoredLeads(LEADS_FILE')) = Len(StoredLeads(LEADS_FILE)) + 1
    /\ SubSeq(StoredLeads(LEADS_FILE'), 1, Len(StoredLeads(LEADS_FILE)))
           = StoredLeads(LEADS_FILE)
    /\ Last(StoredLeads(LEADS_FILE')).domain = e.lead.domain
    /\ Last(StoredLeads(LEADS_FILE')).company_name = e.lead.company_name

NoCaseDuplicates ==
    \A i, j \in 1..Len(StoredLeads(LEADS_FILE)) :
        i # j => Lower(StoredLeads(LEADS_FILE)[i].domain)
                     # Lower(StoredLeads(LEADS_FILE)[j].domain)

(* C24: starting from an empty lead store, after any sequence of add_lead  *)
(* calls made one at a time, no two stored leads have domains equal        *)
(* ignoring letter case; add_lead returns True exactly when it appended    *)
(* the lead, and when it returns False the store is unchanged.             *)

----------------------------------------------------------------------------
(* Vocabulary of the shape of the emitted steps *)

StepTypes == {"thought", "action", "observation", "final_answer", "error"}

IsTerminal(step) == step.step_type \in {"final_answer", "error"}

\* the thought text of the reply of iteration k
ThoughtOfReply(k) == _parse_react_output(llmLog[k].output).thought

\* the thought step of the same reply sits directly before position i
ThoughtDirectlyBefore(i) ==
    /\ i > 1
    /\ steps[i - 1].step_type = "thought"
    /\ steps[i - 1].iteration = steps[i].iteration

(* C25: the steps a run emits have the shape                               *)
(* (thought | [thought] action observation)* terminal: every action step   *)
(* is immediately followed by an observation step with the same action     *)
(* name, a thought step accompanies an action only when the thought text   *)
(* is non-empty and then directly precedes the action step, and no step    *)
(* follows the terminal step.                                              *)

C25_StepShape ==
    /\ \A i \in 1..Len(steps) :
         /\ steps[i].step_type \in StepTypes
         /\ IsTerminal(steps[i]) => i = Len(steps) /\ Done
         /\ steps[i].step_type = "action" =>
              /\ i = Len(steps) => pc = "execute_tool"
              /\ i < Len(steps) =>
                   /\ steps[i + 1].step_type = "observation"
                   /\ steps[i + 1].tool_name = steps[i].tool_name
              /\ ThoughtDirectlyBefore(i) <=> ThoughtOfReply(steps[i].iteration) # <<>>
              /\ ThoughtDirectlyBefore(i) =>
                   steps[i - 1].content = ThoughtOfReply(steps[i].iteration)
              /\ \A j \in 1..Len(steps) :
                   (steps[j].step_type = "thought"
                      /\ steps[j].iteration = steps[i].iteration) => j = i - 1
         /\ steps[i].step_type = "observation" =>
              i > 1 /\ steps[i - 1].step_type = "action"
    /\ Done => steps # <<>> /\ IsTerminal(Last(steps))

C25_Witness ==
    /\ Done
    /\ Len(steps) = 6
    /\ steps[1].step_type = "action"
    /\ steps[2].step_type = "observation"
    /\ steps[3].step_type = "thought"
    /\ steps[4].step_type = "action"
    /\ steps[5].step_type = "observation"
    /\ steps[6].step_type = "final_answer"


----------------------------------------------------------------------------
(* Vocabulary of the unrecognized replies *)

\* this transition is a model invocation whose reply is classified unknown
UnknownNow == Len(llmLog') = Len(llmLog) + 1 /\ Last(llmLog').type = "unknown"

OnlyUnknownReplies == \A i \in 1..Len(llmLog) : llmLog[i].type = "unknown"

(* C26: an iteration whose reply is classified as unrecognized emits no    *)
(* step, appends the reply text verbatim to the transcript and still       *)
(* consumes one iteration of the cap: with a model that only ever returns  *)
(* unrecognized text and cap N, a run that is not cancelled invokes the    *)
(* model exactly N times and emits only the cap-reached terminal step.     *)

C26_UnknownConsumesIteration ==
    /\ [][UnknownNow =>
             /\ steps' = steps /\ cbSteps' = cbSteps
             /\ toolLog' = toolLog
             /\ agent_scratchpad' =
                    agent_scratchpad \o <<NL>> \o Last(llmLog').output \o <<NL>>
             /\ Last(llmLog').iteration = Len(llmLog')
             /\ iteration' = Len(llmLog') /\ pc' = "while"]_vars
    /\ [](Done /\ OnlyUnknownReplies /\ NeverCancelled =>
             /\ Len(llmLog) = max_iterations
             /\ Len(steps) = 1 /\ IsCapNotice(steps[1]))

C26_Witness ==
    /\ Done /\ OnlyUnknownReplies /\ NeverCancelled
    /\ max_iterations = 3 /\ Len(llmLog) = 3
    /\ llmLog[1].output = <<"I will search now">> /\ llmLog[2].output = <<>>
    /\ agent_scratchpad = <<NL, "I will search now", NL, NL, NL, NL>>
                              \o llmLog[3].output \o <<NL>>
    /\ Len(steps) = 1


----------------------------------------------------------------------------
(* Vocabulary of the cancellation latency *)

\* the predicate is true now and has been since the calls noted in cancelMark
CancelRequested == cancellation_callback /\ cancelFlag /\ cancelMark # None

\* every model reply and action call completed so far has its steps emitted
CallsEmitted ==
    /\ pc \notin {"yield_action", "execute_tool"} =>
          /\ Count("action") = Len(toolLog)
          /\ Count("observation") = Len(toolLog)
    /\ \A i \in 1..Len(toolLog) :
          \E j \in 1..Len(steps) :
              /\ steps[j].step_type = "observation"
              /\ steps[j].iteration = toolLog[i].iteration
              /\ steps[j].tool_name = Some(toolLog[i].tool_name)

(* C27: cancellation has bounded latency and does not abort work in        *)
(* flight: once the cancellation predicate has turned true and stays true, *)
(* the model or action call in flight completes and its steps are emitted, *)
(* at most one more model invocation and at most one more action execution *)
(* complete, and the run ends.                                             *)

C27_BoundedCancellationLatency ==
    /\ [](CancelRequested =>
             \A m \in cancelMark :
                 /\ Len(llmLog) <= m.models + 1
                 /\ Len(toolLog) <= m.actions + 1)
    /\ []CallsEmitted
    /\ CancelRequested ~> (Done \/ ~CancelRequested)

C27_Witness ==
    /\ Done /\ CancelRequested
    /\ cancelMark = Mark(1, 1)
    /\ Len(llmLog) = 2 /\ Len(toolLog) = 2
    /\ IsCancelNotice(Last(steps))
    /\ Count("observation") = 2


----------------------------------------------------------------------------
(* Vocabulary of the consultations of the cancellation predicate *)

\* the loop head is reached with the cap used up
CapExhausted == pc = "while" /\ iteration = max_iterations

\* one consultation per started iteration, in order, when a predicate was given
ConsultedOncePerIteration ==
    IF cancellation_callback
    THEN /\ Len(consultLog) = iteration
         /\ \A i \in 1..Len(consultLog) : consultLog[i].iteration = i
    ELSE consultLog = <<>>

(* C28: when the cap is exhausted and the cancellation predicate is true   *)
(* at the same iteration boundary, the predicate is not consulted again    *)
(* and the run ends with the cap-reached notice, not the cancellation      *)
(* notice; the predicate is consulted exactly once per started iteration   *)
(* and never after the last one.                                           *)

C28_CapBeforeCancellation ==
    /\ []ConsultedOncePerIteration
    /\ [][CapExhausted /\ pc' # pc =>
             /\ pc' = "done"
             /\ consultLog' = consultLog
             /\ Len(steps') = Len(steps) + 1
             /\ IsCapNotice(Last(steps'))]_vars
    /\ [][Done => consultLog' = consultLog]_vars

C28_Witness ==
    /\ Done
    /\ cancellation_callback /\ cancelFlag
    /\ max_iterations = 2 /\ iteration = 2
    /\ cancelMark = Mark(2, 2)
    /\ Len(consultLog) = 2 /\ ~consultLog[1].value /\ ~consultLog[2].value
    /\ IsCapNotice(Last(steps))


----------------------------------------------------------------------------
(* Vocabulary of the controller's budget *)

\* no reply of the model ended the run: no final answer and no failure
NoReplyEndedRun ==
    \A i \in 1..Len(llmLog) : llmLog[i].type \notin {"final_answer", "error"}

(* C29: a controller run with logical budget max_iterations = m drives the *)
(* loop with a raw cap of 15*m: the model is invoked at most 15*m times in *)
(* one LeadResearchController.run, and if no final answer, task            *)
(* completion, cancellation or model failure occurs the loop ends with the *)
(* cap-reached notice after exactly 15*m iterations.                       *)

C29_RawCapIsFifteenTimesBudget ==
    ctl # "off" =>
        /\ Len(llmLog) <= 15 * ctl_max_iterations
        /\ iteration <= 15 * ctl_max_iterations
        /\ (Done /\ NoReplyEndedRun /\ NeverCancelled) =>
              /\ iteration = 15 * ctl_max_iterations
              /\ Len(llmLog) = 15 * ctl_max_iterations
              /\ IsCapNotice(Last(steps))
              /\ Last(steps).content = CapMsg(15 * ctl_max_iterations)

C29_Witness ==
    /\ ctl = "done" /\ Done
    /\ ctl_max_iterations = 1
    /\ Len(llmLog) = 15 /\ NoReplyEndedRun /\ NeverCancelled
    /\ consumed = Len(steps)
    /\ IsCapNotice(Last(steps))


----------------------------------------------------------------------------
(* Vocabulary of the steps forwarded by the controller *)

Forwarded(type) ==
    Cardinality({i \in 1..Len(forwarded) : forwarded[i].step_type = type})

(* C30: for every LeadResearchController.run, including runs stopped by    *)
(* external cancellation or by task completion, the steps forwarded to the *)
(* step callback contain as many observation steps as action steps when    *)
(* run returns.                                                            *)

C30_ForwardedObservationsEqualActions ==
    ctl = "done" => Forwarded("observation") = Forwarded("action")


----------------------------------------------------------------------------
(* C31: every LeadResearchController.run forwards exactly one terminal     *)
(* step (final answer, cancellation notice or cap-reached notice) to the   *)
(* step callback, as the last forwarded step, whether the run ends by a    *)
(* model final answer, the cap, external cancellation or task completion.  *)

C31_OneTerminalForwardedLast ==
    (ctl = "done" /\ step_callback /\ ~LLMFailed) =>
        /\ Forwarded("final_answer") = 1
        /\ Last(forwarded).step_type = "final_answer"


----------------------------------------------------------------------------
(* Vocabulary of the task completion *)

\* the observation of a dispatched complete_task action
IsCompletionObservation(step) ==
    step.step_type = "observation" /\ step.tool_name = Some(<<"complete_task">>)

CompletionObservations == {j \in 1..Len(steps) : IsCompletionObservation(steps[j])}

\* the observations of complete_task carry the marker the controller scans for
CompletionMarked ==
    \A j \in CompletionObservations : Contains(steps[j].content, CompletedSentinel)

\* once the controller is past the yield of such an observation it has
\* forwarded it, as the last forwarded step, and has left the loop
CompletionForwarded ==
    \A j \in CompletionObservations :
        (consumed >= j \/ ctl = "done") =>
            /\ ctl = "done"
            /\ step_callback => forwarded # <<>> /\ Last(forwarded) = steps[j]

\* nothing is invoked or executed once a completion observation was emitted
NothingAfterCompletion ==
    CompletionObservations # {} => llmLog' = llmLog /\ toolLog' = toolLog

(* C32: whenever the model dispatches the registered complete_task action  *)
(* with valid arguments, the resulting observation (after the dispatcher's *)
(* decode and re-serialization) carries the completion marker the          *)
(* controller scans for, the controller forwards that observation to the   *)
(* step callback and stops consuming the loop, and no model invocation or  *)
(* action execution happens afterwards in that run.                        *)

C32_CompletionEndsRun ==
    /\ [](ctl # "off" => CompletionMarked /\ CompletionForwarded)
    /\ [][ctl # "off" => NothingAfterCompletion]_vars


----------------------------------------------------------------------------
(* C33: a cancel request that is accepted (status cancelled) while a       *)
(* streaming run is executing is eventually observed by that run: the      *)
(* run's cancellation predicate returns true at its next iteration         *)
(* boundary, under every interleaving with the start of other streaming    *)
(* requests. Stated on finite runs: the run named in the response of an    *)
(* accepted cancel request never ends without having observed it.          *)

C33_AcceptedCancelIsObserved ==
    \A c \in cancelledIds :
        c.state = "active" => runs[c.generation_id] # "finished"


----------------------------------------------------------------------------
(* Vocabulary of the event stream *)

IsEndEvent(e) == e \in {"complete", "error"}

RECURSIVE AllEventsOf(_)
AllEventsOf(messages) ==
    IF messages = <<>> THEN <<>>
    ELSE EventsOf(Head(messages)) \o AllEventsOf(Tail(messages))

(* C34: every streaming response for a run that is not cancelled ends with *)
(* exactly one complete or error event, delivered after all step events    *)
(* the controller thread produced and in the order they were produced,     *)
(* under every interleaving of the controller thread and the polling loop. *)

C34_StreamEndsWithOneEndEvent ==
    stream = "done" /\ produced # <<>> =>
        /\ events # <<>> /\ IsEndEvent(Last(events))
        /\ Cardinality({i \in 1..Len(events) : IsEndEvent(events[i])}) = 1
        /\ events = AllEventsOf(produced)


----------------------------------------------------------------------------
(* Vocabulary of the reasoning-only replies *)

\* the reply, blank lines around it aside, is one line that begins with the
\* reasoning marker and carries no terminal and no action marker
OnlyReasoningLine ==
    LET line == Strip(reply)
    IN  /\ line # <<>>
        /\ Head(line) \in ThoughtMarkers
        /\ \A i \in 1..Len(line) :
              line[i] \notin {NL} \cup FinalMarkers \cup ActionMarkers \cup InputMarkers

\* the text after the marker on that line
ReasoningText == Tail(Strip(reply))

ClassifiedAsReasoning == result.type = "thought" /\ result.thought = ReasoningText

(* C35: a reply with no terminal marker that consists only of a reasoning  *)
(* line ("Thought: ...") and has no line carrying the action marker is     *)
(* classified as a thought whose text is the reasoning text on that line,  *)
(* for every reasoning text.                                               *)

C35_ReasoningLineIsThought ==
    (Parsed /\ OnlyReasoningLine) => ClassifiedAsReasoning

(* C35, amended: such a reply is classified as a thought whose text is the *)
(* reasoning text on that line for every reasoning text that is not empty; *)
(* with nothing after the marker the reply is classified as unknown and    *)
(* carries the whole reply.                                                *)

C35_NonEmptyReasoningLineIsThought ==
    (Parsed /\ OnlyReasoningLine) =>
        IF ReasoningText # <<>>
        THEN ClassifiedAsReasoning
        ELSE result.type = "unknown" /\ result.content = reply

C35_Witness ==
    /\ Parsed /\ OnlyReasoningLine
    /\ reply = <<NL, "Thought:", "plan", NL>>
    /\ result.thought = <<"plan">>


----------------------------------------------------------------------------
(* Vocabulary of the parser's precedence *)

\* the reasoning line of the reply, <<>> when there is none
ThoughtLine ==
    IF FindFirst(reply, ThoughtMarkers) = 0 THEN <<>>
    ELSE LineAfter(reply, FindFirst(reply, ThoughtMarkers))

\* the kind the precedence terminal > action > thought > unrecognized gives
KindByPrecedence ==
    IF HasTerminalMarker THEN "final_answer"
    ELSE IF CleanAction(ActionLine) # <<>> THEN "action"
    ELSE IF ThoughtLine # <<>> THEN "thought"
    ELSE "unknown"

(* C36: _parse_react_output returns exactly one result for every input     *)
(* text, chosen by fixed precedence: final_answer if the terminal marker   *)
(* is present; otherwise action if a non-empty action name was found;      *)
(* otherwise thought if a non-empty reasoning line was found; otherwise    *)
(* unknown carrying the raw text unchanged. The same text always gives the *)
(* same result.                                                            *)

C36_FixedPrecedence ==
    Parsed =>
        /\ result.type = KindByPrecedence
        /\ result.type = "unknown" => result.content = reply
        /\ result = _parse_react_output(reply)


----------------------------------------------------------------------------
(* C37: when a callback is supplied to run_streaming it is invoked exactly *)
(* once for each step, immediately before that step is yielded and in the  *)
(* same order: the steps seen through the callback are at every moment the *)
(* steps yielded so far, each yield comes with one callback call for the   *)
(* same step, and without a callback nothing is called.                    *)

C37_CallbackSeesYieldedSteps ==
    /\ [](IF callback THEN cbSteps = steps ELSE cbSteps = <<>>)
    /\ [][steps' # steps =>
            /\ Len(steps') = Len(steps) + 1
            /\ SubSeq(steps', 1, Len(steps)) = steps
            /\ callback => cbSteps' = Append(cbSteps, Last(steps'))]_vars

C37_Witness ==
    /\ Done /\ callback
    /\ cbSteps = steps
    /\ {"thought", "action", "observation", "final_answer"} \subseteq
           {steps[i].step_type : i \in 1..Len(steps)}


----------------------------------------------------------------------------
(* Vocabulary of the stored lead documents *)

NoTwoDocumentsPerDomain ==
    \A i \in 1..Len(leads_collection) : \A j \in 1..Len(leads_collection) :
        leads_collection[i].domain = leads_collection[j].domain => i = j

\* a call returns in this transition
SaveReturned == Len(saveLog') = Len(saveLog) + 1

(* C38: save_lead_tool never stores two lead documents with the same       *)
(* domain: a call for a domain that is already stored returns status       *)
(* duplicate and inserts nothing, including when two calls for the same    *)
(* domain run concurrently.                                                *)

C38_NoTwoDocumentsPerDomain ==
    /\ []NoTwoDocumentsPerDomain
    /\ [][(SaveReturned /\ Last(saveLog').stored_at_call
                        /\ Last(saveLog').status # "error") =>
            /\ Last(saveLog').status = "duplicate"
            /\ leads_collection' = leads_collection]_vars


====
